---- MODULE Spec2Model ----
(***************************************************************************)
(* Model of claude-code-archiver's relationship engine: the per-file       *)
(* analysis (discovery.py, continuation_detector.py, sdk_detector.py),     *)
(* the analysis cache (cache.py) and the cross-file passes of              *)
(* ProjectDiscovery (continuation chains, snapshot filtering).             *)
(*                                                                         *)
(* A log file is a sequence of lines.  A line is a record holding what     *)
(* json.loads and the detectors can observe of it.  Scores are kept in     *)
(* ten-thousandths (0.95 is 9500); FAdd reproduces the IEEE-754 double     *)
(* rounding of the scorer's sums, where 0.7 + 0.1 is 0.7999999999999999.   *)
(***************************************************************************)
EXTENDS Integers, Sequences, FiniteSets, TLC

VARIABLES
    fs,         \* cache spec: live files, path -> [mtime, size]
    version,    \* cache spec: CACHE_VERSION of the running program
    cache,      \* cache spec: ConversationAnalysisCache.cache (in memory)
    disk,       \* cache spec: conversation_analysis.json, or NoDisk
    lastOp,     \* what the last operation was given and what it returned
    warm,       \* projects discovered and cached, with no file changed since
    stored,     \* path -> the ConversationFile cache_result was last given,
                \* while the file is unchanged and the entry not dropped
    saved,      \* the paths of stored whose entry save() has written
    afile,      \* analysis spec: the file being analysed
    conv,       \* analysis spec: the ConversationFile being filled in
    pc,         \* analysis spec: position in _analyze_conversation_file
    rfiles,     \* resolver specs: the project folder, name -> file
    convs,      \* resolver specs: list of ConversationFile given to the pass
    chains,     \* resolver specs: result of find_continuation_chains
    kept,       \* resolver specs: list returned by detect_and_filter_snapshots
    groups,     \* resolver specs: the groups detect_and_filter_snapshots formed
    rpc,        \* resolver specs: which pass has run
    fillers,    \* discovery spec: how many empty logs the folder holds besides
                \* rfiles
    dag,        \* graph spec: the ConversationDAG (nodes, root_uuid, leaf_uuids)
    pattern     \* type spec: the SummaryPattern given to determine_continuation_type

vars == <<fs, version, cache, disk, lastOp, warm, stored, saved, afile, conv, pc,
          rfiles, convs, chains, kept, groups, rpc, fillers, dag, pattern>>

None == "None"

EmptyMap == [x \in {} |-> 0]

Min(a, b) == IF a <= b THEN a ELSE b
Max(a, b) == IF a >= b THEN a ELSE b

Prefix(s, n) == SubSeq(s, 1, Min(n, Len(s)))

Range(s) == {s[i] : i \in 1..Len(s)}

(***************************************************************************)
(* Lines of a JSONL log.                                                   *)
(*   json     "obj"    the line parses to a JSON object                    *)
(*            "bad"    json.loads raises JSONDecodeError                   *)
(*            "blank"  whitespace only (also a JSONDecodeError)            *)
(*            "nonobj" valid JSON that is not an object: .get raises       *)
(*                     AttributeError                                      *)
(*   type, uuid, leafUuid, sessionId, timestamp, isCompactSummary: the     *)
(*            fields of that name (None or 0 when absent)                  *)
(*   name     which continuation phrase the title holds                    *)
(*   msgok    message is an object (FALSE: message.get raises)             *)
(*   cont     which continuation phrase the text content holds:            *)
(*            "none", "canon" (the canonical sentence), "other" (another   *)
(*            phrase of the list), "prefix" (another phrase together with  *)
(*            "this session is being continued")                           *)
(*   sdk      text holds "analyze this article and extract structured      *)
(*            knowledge"; article: an article pattern; jsonreq: "return    *)
(*            only valid json"                                             *)
(*   reply    content[0].text: "none", "structured" or "pure" JSON         *)
(*   role     the top-level role field; task: tool_calls holds a call of   *)
(*            the Task function                                            *)
(*   parentUuid  the field of that name; content: the uuid that the        *)
(*            top-level content string mentions (None: a string that       *)
(*            mentions none, or no content field)                          *)
(*   tool_use the tool that a tool_use block of message.content names      *)
(***************************************************************************)
BaseLine ==
    [json |-> "obj", type |-> "user", uuid |-> None, leafUuid |-> None,
     sessionId |-> None, timestamp |-> 0, isCompactSummary |-> FALSE,
     name |-> "none", msgok |-> TRUE, cont |-> "none", sdk |-> FALSE,
     article |-> FALSE, jsonreq |-> FALSE, reply |-> "none",
     role |-> None, task |-> FALSE, parentUuid |-> None, content |-> None,
     tool_use |-> None]

BadLine == [BaseLine EXCEPT !.json = "bad", !.type = None]
BlankLine == [BaseLine EXCEPT !.json = "blank", !.type = None]
NonObjLine == [BaseLine EXCEPT !.json = "nonobj", !.type = None]

Parses(l) == l.json \in {"obj", "nonobj"}
IsObj(l) == l.json = "obj"

\* the file, as open() and readlines() give it
NoFile == [readable |-> FALSE, lines |-> <<>>, size |-> 0]
File(ls, sz) == [readable |-> TRUE, lines |-> ls, size |-> sz]


(***************************************************************************)
(* ConversationFile (discovery.py).  A path is <<project folder, stem>>.   *)
(***************************************************************************)
NewConv(path, size, count) ==
    [path |-> path, session_id |-> path[2], size |-> size,
     message_count |-> count, first_timestamp |-> 0,
     starts_with_summary |-> FALSE, leaf_uuid |-> None,
     is_snapshot |-> FALSE, snapshot_type |-> None, message_uuids |-> {},
     parent_session_id |-> None, is_completion_marker |-> FALSE,
     is_sdk_generated |-> FALSE, sdk_pattern_score |-> 0,
     continuation_confidence |-> 0, continuation_type |-> None,
     session_transitions |-> {}, summary_pattern_type |-> None,
     has_error |-> FALSE, is_subagent_sidechain |-> FALSE,
     parent_session_ids |-> <<>>, child_session_ids |-> <<>>]

\* _get_file_stats_fast: (message_count, size), (0, 0) when open fails
GetFileStatsFast(f) ==
    IF f.readable THEN <<Len(f.lines), f.size>> ELSE <<0, 0>>

\* _extract_message_uuids: uuids of the first 100 lines.  A line that is
\* valid JSON but no object raises AttributeError out of the function; the
\* caller then takes the empty set.
SampleLines == 100

ExtractMessageUuids(f) ==
    LET ls == Prefix(f.lines, SampleLines) IN
    IF ~f.readable THEN {}
    ELSE IF \E i \in 1..Len(ls) : ls[i].json = "nonobj" THEN {}
    ELSE {ls[i].uuid : i \in {j \in 1..Len(ls) : IsObj(ls[j]) /\ ls[j].uuid # None}}

\* first timestamp among the first 20 lines (0 when there is none)
RECURSIVE FirstTimestamp(_, _)
FirstTimestamp(ls, i) ==
    IF i > Min(20, Len(ls)) THEN 0
    ELSE IF IsObj(ls[i]) /\ ls[i].timestamp # 0 THEN ls[i].timestamp
    ELSE FirstTimestamp(ls, i + 1)

\* _analyze_conversation_file, lines 213-351: the metadata scan.  A line
\* that is valid JSON but no object, among the first 20 or last, raises
\* AttributeError, which only the outer handler catches.
ScanFile(path, f) ==
    LET stats == GetFileStatsFast(f)
        ls == f.lines
        n == Len(ls)
        first == ls[1]
        summaryFirst == n > 0 /\ IsObj(first) /\ first.type = "summary"
        compactFirst == n > 0 /\ IsObj(first) /\ first.type # "summary"
                          /\ first.isCompactSummary
        sws == summaryFirst \/ compactFirst
        marker == summaryFirst /\ (n = 1 \/ (n = 2 /\ ls[2].json = "blank"))
        actual == IF n > 0 /\ IsObj(first) THEN first.sessionId ELSE None
        raises == \/ \E i \in 1..Min(20, n) : ls[i].json = "nonobj"
                  \/ n > 0 /\ ls[n].json = "nonobj"
    IN  IF ~f.readable
        THEN [NewConv(path, 0, 0) EXCEPT !.has_error = TRUE]
        ELSE IF raises
        THEN [NewConv(path, stats[2], 0) EXCEPT !.has_error = TRUE]
        ELSE [NewConv(path, stats[2], n) EXCEPT
                !.first_timestamp = FirstTimestamp(ls, 1),
                !.starts_with_summary = sws,
                !.leaf_uuid = IF summaryFirst THEN first.leafUuid ELSE None,
                !.message_uuids = ExtractMessageUuids(f),
                !.parent_session_id =
                    IF sws /\ actual # None /\ actual # path[2]
                    THEN actual ELSE None,
                !.is_completion_marker = marker]


(***************************************************************************)
(* sdk_detector.py                                                         *)
(***************************************************************************)
\* _calculate_confidence_score without the scaling of longer conversations
SdkConfidenceScoreUnscaled(cm, ai, jr, sr, ap, ke, pj, short, mc) ==
    LET s1 == IF ai /\ ke
              THEN 5000 + (IF sr THEN 2000 ELSE 0) + (IF pj THEN 2000 ELSE 0)
              ELSE IF cm /\ ai /\ jr /\ sr THEN 4000 ELSE 0
        s2 == IF pj /\ s1 < 3000 THEN s1 + 3000 ELSE s1
        s3 == IF short /\ mc = 3 THEN s2 + 2000
              ELSE IF short /\ mc = 4 THEN s2 + 1500 ELSE s2
        s4 == IF s3 < 6000
              THEN s3 + (IF ke THEN 1500 ELSE 0) + (IF ap THEN 1000 ELSE 0)
                      + (IF ai THEN 1000 ELSE 0) + (IF jr THEN 1000 ELSE 0)
                      + (IF sr THEN 1000 ELSE 0)
              ELSE s3
    IN  Min(s4, 10000)

\* sdk_detector._calculate_confidence_score.  The second length branch
\* (message_count > 6) can never be taken: it is an elif of > 4.
SdkConfidenceScore(cm, ai, jr, sr, ap, ke, pj, short, mc) ==
    LET s1 == IF ai /\ ke
              THEN 5000 + (IF sr THEN 2000 ELSE 0) + (IF pj THEN 2000 ELSE 0)
              ELSE IF cm /\ ai /\ jr /\ sr THEN 4000 ELSE 0
        s2 == IF pj /\ s1 < 3000 THEN s1 + 3000 ELSE s1
        s3 == IF short /\ mc = 3 THEN s2 + 2000
              ELSE IF short /\ mc = 4 THEN s2 + 1500 ELSE s2
        s4 == IF s3 < 6000
              THEN s3 + (IF ke THEN 1500 ELSE 0) + (IF ap THEN 1000 ELSE 0)
                      + (IF ai THEN 1000 ELSE 0) + (IF jr THEN 1000 ELSE 0)
                      + (IF sr THEN 1000 ELSE 0)
              ELSE s3
        s5 == IF mc > 4 THEN (s4 * 7) \div 10
              ELSE IF mc > 6 THEN (s4 * 4) \div 10 ELSE s4
    IN  Min(s5, 10000)

\* detect_sdk_pattern: the confidence score of the pattern it returns
DetectSdkPattern(c, f) ==
    LET ls == f.lines
        n == Len(ls)
        cm == \/ c.starts_with_summary
              \/ n > 0 /\ IsObj(ls[1]) /\ ls[1].type = "summary"
                       /\ ls[1].leafUuid # None
        uidx == IF cm THEN 2 ELSE 1
        aidx == uidx + 1
        u == ls[uidx]
        a == ls[aidx]
        isUser == n >= uidx /\ IsObj(u) /\ u.type = "user"
        isAsst == n >= aidx /\ IsObj(a) /\ a.type = "assistant"
        raises == \/ ls[1].json = "nonobj"
                  \/ n >= uidx /\ u.json = "nonobj"
                  \/ isUser /\ ~u.msgok
                  \/ n >= aidx /\ a.json = "nonobj"
                  \/ isAsst /\ ~a.msgok
        ai == isUser /\ u.sdk
        jr == isUser /\ u.jsonreq
        ap == isUser /\ (u.article \/ u.sdk)
        sr == isAsst /\ a.reply \in {"structured", "pure"}
        pj == isAsst /\ a.reply = "pure"
    IN  IF ~f.readable \/ n < 1 THEN 0
        ELSE IF raises THEN 0
        ELSE SdkConfidenceScore(cm, ai, jr, sr, ap, ai, pj,
                                c.message_count <= 4, c.message_count)

(***************************************************************************)
(* continuation_detector.py                                                *)
(***************************************************************************)
\* _analyze_summary_context: <<is_single_continuation_summary, summary_count>>
AnalyzeSummaryContext(f) ==
    LET ls == Prefix(f.lines, 30)
        n == Len(ls)
        summaries == Cardinality({i \in 1..n : IsObj(ls[i]) /\ ls[i].type = "summary"})
        compact == IF n > 0 /\ IsObj(ls[1]) /\ ls[1].isCompactSummary THEN 1 ELSE 0
        count == summaries + compact
        single == count = 1 /\ n > 0 /\ IsObj(ls[1])
                    /\ (ls[1].type = "summary" \/ ls[1].isCompactSummary)
    IN  IF ~f.readable THEN <<FALSE, 0>>
        ELSE IF \E i \in 1..n : ls[i].json = "nonobj" THEN <<FALSE, 0>>
        ELSE <<single, count>>

\* _detect_session_transitions: <<has_transitions, session_ids_found>>
DetectSessionTransitions(f) ==
    LET ls == Prefix(f.lines, 30)
        ids == {ls[i].sessionId :
                  i \in {j \in 1..Len(ls) : IsObj(ls[j]) /\ ls[j].sessionId # None}}
    IN  IF ~f.readable THEN <<FALSE, {}>>
        ELSE IF \E i \in 1..Len(ls) : ls[i].json = "nonobj" THEN <<FALSE, {}>>
        ELSE <<Cardinality(ids) > 1, ids>>

\* _detect_explicit_continuation_content: the confidence it returns.
\* checked counts the user/assistant records examined so far.
MaxMessagesToCheck == 3

RECURSIVE ExplicitScan(_, _, _)
ExplicitScan(ls, i, checked) ==
    IF i > Len(ls) THEN 0
    ELSE LET l == ls[i] IN
         IF l.json \in {"bad", "blank"} THEN ExplicitScan(ls, i + 1, checked)
         ELSE IF l.json = "nonobj" THEN 0
         ELSE IF checked >= MaxMessagesToCheck THEN 0
         ELSE IF l.name # "none" THEN 9500
         ELSE IF l.type \in {"user", "assistant"}
         THEN IF ~l.msgok THEN 0
              ELSE IF l.cont \in {"canon", "prefix"} THEN 9500
              ELSE IF l.cont = "other"
              THEN (IF l.type = "user" THEN 9000 ELSE 8500)
              ELSE ExplicitScan(ls, i + 1, checked + 1)
         ELSE ExplicitScan(ls, i + 1, checked)

DetectExplicitContinuationContent(f) ==
    IF ~f.readable THEN 0 ELSE ExplicitScan(f.lines, 1, 0)

\* IEEE-754 double addition of the scorer's weights, in ten-thousandths:
\* the sum, moved one unit where the double result is not the double of
\* the decimal sum (0.7 + 0.1 = 0.7999999999999999 is 7999).
FAdd(a, b) ==
    LET p == <<a, b>> IN
    a + b + (IF p \in {<<2000, -3000>>, <<2000, 1000>>, <<4000, -3000>>,
                       <<4000, 2000>>, <<8999, -2000>>} THEN 1
             ELSE IF p \in {<<3000, -2000>>, <<7000, -3000>>, <<7000, -2000>>,
                            <<7000, 1000>>, <<7000, 2000>>} THEN -1
             ELSE 0)

\* _calculate_confidence_score without the penalty for more than 2 summaries
CalculateConfidenceScoreNoPenalty(single, count, trans, sws, parent, sdkgen) ==
    LET a1 == IF single THEN FAdd(0, 4000) ELSE 0
        a2 == IF trans THEN FAdd(a1, 3000) ELSE a1
        a3 == IF parent # None THEN FAdd(a2, 2000) ELSE a2
        a4 == IF sws /\ count = 1 THEN FAdd(a3, 1000) ELSE a3
        a6 == IF count = 0 THEN FAdd(a4, -2000) ELSE a4
    IN  IF sdkgen THEN 0 ELSE Max(0, Min(10000, a6))

\* continuation_detector._calculate_confidence_score
CalculateConfidenceScore(single, count, trans, sws, parent, sdkgen) ==
    LET a1 == IF single THEN FAdd(0, 4000) ELSE 0
        a2 == IF trans THEN FAdd(a1, 3000) ELSE a1
        a3 == IF parent # None THEN FAdd(a2, 2000) ELSE a2
        a4 == IF sws /\ count = 1 THEN FAdd(a3, 1000) ELSE a3
        a5 == IF count > 2 THEN FAdd(a4, -3000) ELSE a4
        a6 == IF count = 0 THEN FAdd(a5, -2000) ELSE a5
    IN  IF sdkgen THEN 0 ELSE Max(0, Min(10000, a6))

\* detect_continuation_pattern combining the two scores by their sum
DetectContinuationPatternSum(c, f) ==
    LET ctx == AnalyzeSummaryContext(f)
        tr == DetectSessionTransitions(f)
        content == DetectExplicitContinuationContent(f)
        structural == CalculateConfidenceScore(ctx[1], ctx[2], tr[1],
                          c.starts_with_summary, c.parent_session_id,
                          c.is_sdk_generated)
    IN  [summary_count |-> ctx[2],
         is_single_continuation_summary |-> ctx[1],
         has_session_transitions |-> tr[1],
         confidence_score |-> structural + content,
         summary_type |-> IF ctx[2] = 0 THEN "none"
                          ELSE IF ctx[2] = 1 /\ ctx[1] THEN "single_summary"
                          ELSE "multi_summary",
         session_ids_found |-> tr[2]]

\* detect_continuation_pattern: the SummaryPattern
DetectContinuationPattern(c, f) ==
    LET ctx == AnalyzeSummaryContext(f)
        tr == DetectSessionTransitions(f)
        content == DetectExplicitContinuationContent(f)
        structural == CalculateConfidenceScore(ctx[1], ctx[2], tr[1],
                          c.starts_with_summary, c.parent_session_id,
                          c.is_sdk_generated)
    IN  [summary_count |-> ctx[2],
         is_single_continuation_summary |-> ctx[1],
         has_session_transitions |-> tr[1],
         confidence_score |-> Max(structural, content),
         summary_type |-> IF ctx[2] = 0 THEN "none"
                          ELSE IF ctx[2] = 1 /\ ctx[1] THEN "single_summary"
                          ELSE "multi_summary",
         session_ids_found |-> tr[2]]

\* determine_continuation_type testing the summary count before the
\* explicit-text override
DetermineContinuationTypeCountFirst(p) ==
    IF p.confidence_score < 5000 THEN None
    ELSE IF p.summary_count > 2 THEN "context_history"
    ELSE IF p.confidence_score >= 8500
    THEN (IF p.has_session_transitions THEN "post_compaction"
          ELSE "true_continuation")
    ELSE IF p.confidence_score >= 8000 /\ p.has_session_transitions
    THEN "post_compaction"
    ELSE IF p.confidence_score >= 8000 /\ p.is_single_continuation_summary
    THEN "true_continuation"
    ELSE "possible_continuation"

\* determine_continuation_type returning possible_continuation for every
\* pattern from 0.5 that the 0.85 rule does not settle
DetermineContinuationTypeNoEighty(p) ==
    IF p.confidence_score < 5000 THEN None
    ELSE IF p.confidence_score >= 8500
    THEN (IF p.has_session_transitions THEN "post_compaction"
          ELSE "true_continuation")
    ELSE IF p.summary_count > 2 THEN "context_history"
    ELSE "possible_continuation"

\* determine_continuation_type
DetermineContinuationType(p) ==
    IF p.confidence_score < 5000 THEN None
    ELSE IF p.confidence_score >= 8500
    THEN (IF p.has_session_transitions THEN "post_compaction"
          ELSE "true_continuation")
    ELSE IF p.confidence_score >= 8000 /\ p.has_session_transitions
    THEN "post_compaction"
    ELSE IF p.confidence_score >= 8000 /\ p.is_single_continuation_summary
    THEN "true_continuation"
    ELSE IF p.summary_count > 2 THEN "context_history"
    ELSE "possible_continuation"


\* _analyze_conversation_file, lines 353-363: SDK detection
WithSdk(c, f) ==
    LET score == DetectSdkPattern(c, f) IN
    [c EXCEPT !.is_sdk_generated = score > 8000, !.sdk_pattern_score = score]

\* _analyze_conversation_file, lines 365-380: continuation detection
WithContinuation(c, f) ==
    LET p == DetectContinuationPattern(c, f) IN
    [c EXCEPT !.continuation_confidence = p.confidence_score,
              !.continuation_type = DetermineContinuationType(p),
              !.session_transitions = p.session_ids_found,
              !.summary_pattern_type = p.summary_type]

\* _analyze_conversation_file as a whole
AnalyzeConversationFile(path, f) ==
    LET c == ScanFile(path, f) IN
    IF c.has_error THEN c ELSE WithContinuation(WithSdk(c, f), f)

(***************************************************************************)
(* Specification SpecAnalyze: one file, drawn from every sequence of at    *)
(* most MaxLines catalogue lines, goes through _analyze_conversation_file. *)
(***************************************************************************)
MaxLines == 4

SummaryLine == [BaseLine EXCEPT !.type = "summary", !.leafUuid = "u1"]
UserLine == [BaseLine EXCEPT !.uuid = "u1", !.sessionId = "s1", !.timestamp = 1]
CanonUserLine ==
    [BaseLine EXCEPT !.uuid = "u2", !.sessionId = "s2", !.timestamp = 2,
                     !.cont = "canon"]
SdkUserLine == [BaseLine EXCEPT !.sdk = TRUE, !.article = TRUE, !.jsonreq = TRUE]
SdkContUserLine == [SdkUserLine EXCEPT !.cont = "other"]
JsonReplyLine == [BaseLine EXCEPT !.type = "assistant", !.reply = "pure"]
ContReplyLine == [BaseLine EXCEPT !.type = "assistant", !.cont = "other"]
CompactLine ==
    [BaseLine EXCEPT !.isCompactSummary = TRUE, !.sessionId = "s2",
                     !.timestamp = 1]
TitledLine == [BaseLine EXCEPT !.type = "system", !.name = "other"]
BadMessageLine == [BaseLine EXCEPT !.msgok = FALSE]

LineCatalog ==
    {SummaryLine, UserLine, CanonUserLine, SdkUserLine, SdkContUserLine,
     JsonReplyLine, ContReplyLine, CompactLine, TitledLine, BadMessageLine,
     BadLine, NonObjLine}

AnalysisPath == <<"pA", "s1">>

SeqsUpTo(S, n) == UNION {[1..k -> S] : k \in 0..n}

\* longer files: a user message with the instruction phrase, alone or with
\* a pure JSON reply, with or without a leading summary, followed by
\* MaxLines - 1 to MaxPadding further records
MaxPadding == 5

PaddedFiles ==
    {File(head \o pad, 1) :
        head \in {<<SdkUserLine>>, <<SdkUserLine, JsonReplyLine>>,
                  <<SummaryLine, SdkUserLine, JsonReplyLine>>},
        pad \in UNION {[1..k -> {UserLine, JsonReplyLine}] :
                         k \in (MaxLines - 1)..MaxPadding}}

AnalysisFiles ==
    {NoFile} \cup {File(ls, 1) : ls \in SeqsUpTo(LineCatalog, MaxLines)}
             \cup PaddedFiles

CacheIdle ==
    /\ fs = EmptyMap /\ version = None /\ cache = EmptyMap /\ disk = EmptyMap
    /\ lastOp = [op |-> "idle"] /\ warm = {} /\ stored = EmptyMap
    /\ saved = {}

ResolverIdle ==
    /\ rfiles = EmptyMap /\ convs = <<>> /\ chains = EmptyMap /\ kept = <<>>
    /\ groups = <<>> /\ rpc = "idle" /\ fillers = 0

AnalysisIdle == afile = NoFile /\ conv = EmptyMap /\ pc = "idle"

\* no graph under construction
NoDag == [nodes |-> EmptyMap, root_uuid |-> None, leaf_uuids |-> <<>>]

DagIdle == dag = NoDag

PatternIdle == pattern = None

InitAnalyze ==
    /\ DagIdle /\ PatternIdle
    /\ afile \in AnalysisFiles
    /\ conv = EmptyMap
    /\ pc = "scan"
    /\ CacheIdle /\ ResolverIdle

AnalyzeScan ==
    /\ pc = "scan"
    /\ conv' = ScanFile(AnalysisPath, afile)
    /\ pc' = IF conv'.has_error THEN "done" ELSE "sdk"
    /\ UNCHANGED <<afile, fs, version, cache, disk, lastOp, warm, stored, saved,
                   rfiles, convs, chains, kept, groups, rpc, fillers, dag, pattern>>

AnalyzeSdk ==
    /\ pc = "sdk"
    /\ conv' = WithSdk(conv, afile)
    /\ pc' = "continuation"
    /\ UNCHANGED <<afile, fs, version, cache, disk, lastOp, warm, stored, saved,
                   rfiles, convs, chains, kept, groups, rpc, fillers, dag, pattern>>

AnalyzeContinuation ==
    /\ pc = "continuation"
    /\ conv' = WithContinuation(conv, afile)
    /\ pc' = "done"
    /\ UNCHANGED <<afile, fs, version, cache, disk, lastOp, warm, stored, saved,
                   rfiles, convs, chains, kept, groups, rpc, fillers, dag, pattern>>

NextAnalyze == AnalyzeScan \/ AnalyzeSdk \/ AnalyzeContinuation

SpecAnalyze == InitAnalyze /\ [][NextAnalyze]_vars


(***************************************************************************)
(* Properties of the per-file analysis (SpecAnalyze)                       *)
(***************************************************************************)
Analysed == pc = "done"

\* C4: a file flagged as SDK-generated (score > 0.8) always gets
\* continuation_confidence 0, whatever its other signals.
C4_SdkForcesZero ==
    Analysed /\ conv.is_sdk_generated => conv.continuation_confidence = 0

\* C5: the continuation_confidence stored on the ConversationFile lies in
\* [0, 1] for every file, read failures and failed scans included.
C5_ConfidenceInUnitInterval ==
    pc \in {"sdk", "continuation", "done"} =>
        /\ conv.continuation_confidence >= 0
        /\ conv.continuation_confidence <= 10000

\* C5 witness: all four structural signals add up to 0.9999999999999999
C5_Witness ==
    Analysed /\ ~conv.has_error /\ conv.continuation_confidence = 9999

\* a user-authored message holding the canonical sentence
IsCanonUser(l) == IsObj(l) /\ l.type = "user" /\ l.msgok /\ l.cont = "canon"

HasCanonUser(f) == \E i \in 1..Len(f.lines) : IsCanonUser(f.lines[i])

\* the explicit-content scan gets to such a message: fewer than 3
\* user/assistant records precede it, and no earlier line stops the scan (a
\* JSON value that is no object, a title or a text with a phrase, a message
\* that is no object)
ScanReachesCanonUser(f) ==
    \E i \in 1..Len(f.lines) :
        /\ IsCanonUser(f.lines[i])
        /\ Cardinality({j \in 1..(i - 1) :
               IsObj(f.lines[j]) /\ f.lines[j].type \in {"user", "assistant"}})
             < MaxMessagesToCheck
        /\ \A j \in 1..(i - 1) :
               LET l == f.lines[j] IN
               \/ l.json \in {"bad", "blank"}
               \/ /\ IsObj(l) /\ l.name = "none"
                  /\ l.type \in {"user", "assistant"} => l.msgok /\ l.cont = "none"

\* C6 as stated: every file containing a user-authored message with the
\* canonical sentence gets confidence 0.95 and type true_continuation.
C6_CanonAlwaysTrueContinuation ==
    Analysed /\ HasCanonUser(afile) =>
        /\ conv.continuation_confidence = 9500
        /\ conv.continuation_type = "true_continuation"

\* C6 amended: when the analysis ends without the error flag and the scan
\* reaches a user-authored message with the canonical sentence, the
\* confidence is at least 0.95; without a session-id transition it is
\* exactly 0.95 and the type is true_continuation, with one the type is
\* post_compaction.
C6_ReachedCanonGrade ==
    Analysed /\ ~conv.has_error /\ ScanReachesCanonUser(afile) =>
        /\ conv.continuation_confidence >= 9500
        /\ IF Cardinality(conv.session_transitions) > 1
           THEN conv.continuation_type = "post_compaction"
           ELSE /\ conv.continuation_confidence = 9500
                /\ conv.continuation_type = "true_continuation"

\* C6 witness: three summaries, then the canonical sentence from the user
C6_Witness ==
    /\ Analysed /\ ~conv.has_error /\ ScanReachesCanonUser(afile)
    /\ Len(afile.lines) = 4 /\ afile.lines[1].type = "summary"
    /\ conv.continuation_confidence = 9500
    /\ conv.continuation_type = "true_continuation"


(***************************************************************************)
(* cache.py: ConversationAnalysisCache                                     *)
(***************************************************************************)
\* str(path) and Path(string), on the parts of the path
PathToStr(path) == <<"/", path[1], "/", path[2], ".jsonl">>
StrToPath(str) == <<str[2], str[4]>>

\* list(a_set): the elements in some fixed order
RECURSIVE SetToList(_)
SetToList(S) ==
    IF S = {} THEN <<>>
    ELSE LET x == CHOOSE y \in S : TRUE IN <<x>> \o SetToList(S \ {x})

\* cache_result leaving the two sets out of the dictionary
ConvToDictNoSets(c) ==
    [c EXCEPT !.path = PathToStr(c.path),
              !.message_uuids = <<>>,
              !.session_transitions = <<>>]

\* cache_result, lines 171-174: model_dump() with path as a string and the
\* two sets as lists
ConvToDict(c) ==
    [c EXCEPT !.path = PathToStr(c.path),
              !.message_uuids = SetToList(c.message_uuids),
              !.session_transitions = SetToList(c.session_transitions)]

\* ConversationFile(**analysis_result): pydantic turns the string into a
\* Path and the lists into sets
ConvFromDict(d) ==
    [d EXCEPT !.path = StrToPath(d.path),
              !.message_uuids = Range(d.message_uuids),
              !.session_transitions = Range(d.session_transitions)]

\* CacheEntry.to_dict / CacheEntry.from_dict
EntryToDict(e) == [e EXCEPT !.file_path = PathToStr(e.file_path)]
EntryFromDict(d) == [d EXCEPT !.file_path = StrToPath(d.file_path)]

\* _save_cache: the JSON document written to conversation_analysis.json
SaveCache(c) ==
    [k \in {PathToStr(p) : p \in DOMAIN c} |-> EntryToDict(c[StrToPath(k)])]

\* _load_cache: the dictionary a new instance starts with
LoadCache(d) ==
    [p \in {StrToPath(k) : k \in DOMAIN d} |-> EntryFromDict(d[PathToStr(p)])]

\* should_reanalyze
ShouldReanalyze(c, ver, files, path) ==
    IF path \notin DOMAIN c THEN TRUE
    ELSE IF c[path].analysis_version # ver THEN TRUE
    ELSE IF ~files[path].exists THEN TRUE
    ELSE IF files[path].mtime > c[path].last_modified THEN TRUE
    ELSE files[path].size # c[path].file_size

\* get_cached_result: the value returned, Miss for None
Miss == [hit |-> FALSE]
Hit(c) == [hit |-> TRUE, conv |-> c]

\* ConversationFile(**analysis_result) builds an object: the required
\* fields path, session_id and size are there (a ValidationError otherwise)
Rebuilds(d) == {"path", "session_id", "size"} \subseteq DOMAIN d

CachedResult(c, ver, files, path) ==
    IF path \notin DOMAIN c THEN Miss
    ELSE IF ShouldReanalyze(c, ver, files, path) THEN Miss
    ELSE IF ~Rebuilds(c[path].analysis_result) THEN Miss
    ELSE Hit(ConvFromDict(c[path].analysis_result))

\* get_cached_result leaving an entry it cannot rebuild where it is
CacheAfterGetKeeping(c, ver, files, path) == [p \in DOMAIN c |-> c[p]]

\* get_cached_result, lines 153-158: the cache it leaves.  The entry whose
\* result does not rebuild is deleted; nothing else changes.
CacheAfterGet(c, ver, files, path) ==
    IF /\ path \in DOMAIN c
       /\ ~ShouldReanalyze(c, ver, files, path)
       /\ ~Rebuilds(c[path].analysis_result)
    THEN [p \in DOMAIN c \ {path} |-> c[p]]
    ELSE c

\* cache_result: the entry built for a file that stat() finds
NewEntry(c, ver, files) ==
    [file_path |-> c.path,
     last_modified |-> files[c.path].mtime,
     file_size |-> files[c.path].size,
     analysis_result |-> ConvToDict(c),
     analysis_version |-> ver]

\* cleanup_stale_entries deleting nothing
CleanupStaleEntriesNone(c, valid_paths) == [p \in DOMAIN c |-> c[p]]

\* cleanup_stale_entries
CleanupStaleEntries(c, valid_paths) ==
    [p \in DOMAIN c \cap valid_paths |-> c[p]]


(***************************************************************************)
(* Specification SpecCache: two project folders with one log each, one     *)
(* cache file.  The environment rewrites, touches and removes the log of   *)
(* project pA (the log of pB stays as it is) and installs a new program    *)
(* version; the program queries and fills the cache, saves it, starts      *)
(* anew, and runs discovery over a project.                                *)
(***************************************************************************)
MaxMtime == 2

\* CACHE_VERSION of the program before and after an upgrade
OldVersion == "2.0.0"
CacheVersion == "2.1.0"

Projects == {"pA", "pB"}
CachePaths == {<<"pA", "s1">>, <<"pB", "s2">>}
Rewritten == {<<"pA", "s1">>}

Gone == [exists |-> FALSE, mtime |-> 0, size |-> 0]

\* what a log of the given size holds
CacheBody == <<CanonUserLine, UserLine>>
Sizes == 1..Len(CacheBody)

Content(st) ==
    IF st.exists THEN File(Prefix(CacheBody, st.size), st.size) ELSE NoFile

\* project_folder.glob("*.jsonl")
JsonlFiles(files, project) ==
    {p \in CachePaths : p[1] = project /\ files[p].exists}

Without(f, S) == [x \in DOMAIN f \ S |-> f[x]]

InitCache ==
    /\ DagIdle /\ PatternIdle
    /\ \E sz \in Sizes :
          fs = [p \in CachePaths |->
                  [exists |-> TRUE, mtime |-> 1,
                   size |-> IF p \in Rewritten THEN sz ELSE 1]]
    /\ version = OldVersion
    /\ cache = EmptyMap
    /\ disk = EmptyMap
    /\ lastOp = [op |-> "other"]
    /\ warm = {} /\ stored = EmptyMap /\ saved = {}
    /\ AnalysisIdle /\ ResolverIdle

CacheFrame ==
    UNCHANGED <<afile, conv, pc, rfiles, convs, chains, kept, groups, rpc, fillers, dag, pattern>>

\* the environment writes or touches a log
Touch(path, m, sz) ==
    /\ fs[path] # [exists |-> TRUE, mtime |-> m, size |-> sz]
    /\ fs' = [fs EXCEPT ![path] = [exists |-> TRUE, mtime |-> m, size |-> sz]]
    /\ lastOp' = [op |-> "other"]
    /\ warm' = warm \ {path[1]}
    /\ stored' = Without(stored, {path})
    /\ saved' = saved \ {path}
    /\ UNCHANGED <<version, cache, disk>>
    /\ CacheFrame

\* the environment removes a log
Remove(path) ==
    /\ fs[path].exists
    /\ fs' = [fs EXCEPT ![path] = Gone]
    /\ lastOp' = [op |-> "other"]
    /\ warm' = warm \ {path[1]}
    /\ stored' = Without(stored, {path})
    /\ saved' = saved \ {path}
    /\ UNCHANGED <<version, cache, disk>>
    /\ CacheFrame

\* a program with another CACHE_VERSION is installed and started
Upgrade ==
    /\ version = OldVersion
    /\ version' = CacheVersion
    /\ cache' = LoadCache(disk)
    /\ lastOp' = [op |-> "other"]
    /\ warm' = {} /\ stored' = EmptyMap /\ saved' = {}
    /\ UNCHANGED <<fs, disk>>
    /\ CacheFrame

\* ConversationAnalysisCache(): a new instance loads the cache file
NewInstance ==
    /\ cache' = LoadCache(disk)
    /\ lastOp' = [op |-> "other"]
    /\ stored' = Without(stored, DOMAIN stored \ saved)
    /\ UNCHANGED <<fs, version, disk, warm, saved>>
    /\ CacheFrame

CallShouldReanalyze(path) ==
    /\ lastOp' = [op |-> "should_reanalyze", path |-> path,
                  ret |-> ShouldReanalyze(cache, version, fs, path)]
    /\ UNCHANGED <<fs, version, cache, disk, warm, stored, saved>>
    /\ CacheFrame

CallGetCachedResult(path) ==
    /\ lastOp' = [op |-> "get_cached_result", path |-> path,
                  ret |-> CachedResult(cache, version, fs, path),
                  before |-> cache]
    /\ cache' = CacheAfterGet(cache, version, fs, path)
    /\ UNCHANGED <<fs, version, disk, warm, stored, saved>>
    /\ CacheFrame

\* cache_result on the analysis of a log; stat() of a removed log raises
\* OSError and nothing is stored
CallCacheResult(path) ==
    LET c == AnalyzeConversationFile(path, Content(fs[path])) IN
    /\ IF fs[path].exists
       THEN /\ cache' = [q \in DOMAIN cache \cup {path} |->
                           IF q = path THEN NewEntry(c, version, fs) ELSE cache[q]]
            /\ stored' = [q \in DOMAIN stored \cup {path} |->
                            IF q = path THEN c ELSE stored[q]]
       ELSE UNCHANGED <<cache, stored>>
    /\ saved' = saved \ {path}
    /\ lastOp' = [op |-> "other"]
    /\ UNCHANGED <<fs, version, disk, warm>>
    /\ CacheFrame

CallSave ==
    /\ disk' = SaveCache(cache)
    /\ saved' = DOMAIN stored
    /\ lastOp' = [op |-> "other"]
    /\ UNCHANGED <<fs, version, cache, warm, stored>>
    /\ CacheFrame

\* discover_project_conversations, lines 108-159: stale entries are
\* dropped, every log of the folder is taken from the cache or analysed and
\* cached, the cache is saved
Discover(project) ==
    LET files == JsonlFiles(fs, project)
        cleaned == CleanupStaleEntries(cache, files)
        hits == {p \in files : CachedResult(cleaned, version, fs, p).hit}
        misses == files \ hits
        result(p) == IF p \in hits THEN CachedResult(cleaned, version, fs, p).conv
                     ELSE AnalyzeConversationFile(p, Content(fs[p]))
        filled == [p \in DOMAIN cleaned \cup misses |->
                     IF p \in misses THEN NewEntry(result(p), version, fs)
                     ELSE cleaned[p]]
    IN  /\ cache' = filled
        /\ disk' = SaveCache(filled)
        /\ lastOp' = [op |-> "discover", project |-> project,
                      wasWarm |-> project \in warm,
                      intact |-> files \cap DOMAIN stored,
                      analysed |-> misses,
                      conversations |-> {result(p) : p \in files}]
        /\ warm' = warm \cup {project}
        /\ stored' = [p \in (DOMAIN stored \cap DOMAIN filled) \cup misses |->
                        IF p \in misses THEN result(p) ELSE stored[p]]
        /\ saved' = (DOMAIN stored \cap DOMAIN filled) \cup misses
        /\ UNCHANGED <<fs, version>>
        /\ CacheFrame

NextCache ==
    \/ \E path \in Rewritten, m \in 1..MaxMtime, sz \in Sizes :
           Touch(path, m, sz)
    \/ \E path \in Rewritten : Remove(path)
    \/ Upgrade
    \/ NewInstance
    \/ \E path \in CachePaths : CallShouldReanalyze(path)
    \/ \E path \in CachePaths : CallGetCachedResult(path)
    \/ \E path \in CachePaths : CallCacheResult(path)
    \/ CallSave
    \/ \E project \in Projects : Discover(project)

SpecCache == InitCache /\ [][NextCache]_vars


(***************************************************************************)
(* Specification SpecRepair: the same two logs, untouched, and a program   *)
(* that starts with whatever conversation_analysis.json held: for each log *)
(* no entry, or an entry with any keys and a result that rebuilds or does  *)
(* not.  The program queries the cache and cleans it.                      *)
(***************************************************************************)
\* an analysis_result without the required fields
InvalidResult == [invalid |-> "data"]

\* the entries the loaded file can hold for a log
LoadedEntries(files, path) ==
    {[file_path |-> path, last_modified |-> m, file_size |-> sz,
      analysis_result |-> r, analysis_version |-> v] :
        m \in 0..MaxMtime, sz \in Sizes, v \in {OldVersion, CacheVersion},
        r \in {ConvToDict(AnalyzeConversationFile(path, Content(files[path]))),
               InvalidResult}}

LoadedCaches(files) ==
    UNION {{c \in [D -> UNION {LoadedEntries(files, p) : p \in D}] :
               \A p \in D : c[p].file_path = p} : D \in SUBSET CachePaths}

InitRepair ==
    /\ DagIdle /\ PatternIdle
    /\ \E sz \in Sizes :
          fs = [p \in CachePaths |->
                  [exists |-> TRUE, mtime |-> 1,
                   size |-> IF p \in Rewritten THEN sz ELSE 1]]
    /\ version = CacheVersion
    /\ cache \in LoadedCaches(fs)
    /\ disk = EmptyMap
    /\ lastOp = [op |-> "other"]
    /\ warm = {} /\ stored = EmptyMap /\ saved = {}
    /\ ResolverIdle /\ AnalysisIdle

CallCleanupStaleEntries(valid_paths) ==
    /\ lastOp' = [op |-> "cleanup_stale_entries", valid_paths |-> valid_paths,
                  before |-> cache]
    /\ cache' = CleanupStaleEntries(cache, valid_paths)
    /\ UNCHANGED <<fs, version, disk, warm, stored, saved>>
    /\ CacheFrame

NextRepair ==
    \/ \E path \in CachePaths : CallGetCachedResult(path)
    \/ \E valid_paths \in SUBSET CachePaths : CallCleanupStaleEntries(valid_paths)

SpecRepair == InitRepair /\ [][NextRepair]_vars


(***************************************************************************)
(* Properties of the cache (SpecCache)                                     *)
(***************************************************************************)
\* the live file differs from the entry in one of the three keys
KeysDiffer(path) ==
    \/ fs[path].mtime # cache[path].last_modified
    \/ fs[path].size # cache[path].file_size
    \/ version # cache[path].analysis_version

\* C1: an entry is treated as invalid (should_reanalyze is True,
\* get_cached_result is None) whenever the live mtime, the live size or the
\* format version differs in any way from the stored value, and as valid
\* only when all three are equal.
C1_InvalidIffAnyKeyDiffers ==
    /\ lastOp.op \in {"should_reanalyze", "get_cached_result"}
    /\ lastOp.path \in DOMAIN cache
    /\ fs[lastOp.path].exists
    => IF lastOp.op = "should_reanalyze"
       THEN lastOp.ret = KeysDiffer(lastOp.path)
       ELSE lastOp.ret.hit = ~KeysDiffer(lastOp.path)

\* C2: what cache_result stored is what get_cached_result returns while the
\* file is unchanged, in the same instance or after save() and a reload;
\* a discovery run then takes the file from the cache, with the same result.
C2_RoundTrip ==
    /\ lastOp.op = "get_cached_result" /\ lastOp.path \in DOMAIN stored
       => lastOp.ret.hit /\ lastOp.ret.conv = stored[lastOp.path]
    /\ lastOp.op = "discover"
       => /\ lastOp.intact \cap lastOp.analysed = {}
          /\ \A path \in lastOp.intact : stored[path] \in lastOp.conversations

\* C2 witness: a stored result with two sampled uuids, saved, is read back
C2_Witness ==
    /\ lastOp.op = "get_cached_result" /\ lastOp.path \in saved
    /\ PathToStr(lastOp.path) \in DOMAIN disk
    /\ lastOp.ret.hit
    /\ Cardinality(lastOp.ret.conv.message_uuids) = 2

\* C3: once a discovery run has analysed and cached a project's files,
\* every later run over that project with its files unchanged re-analyses
\* none of them, whatever runs happened in between.
C3_WarmProjectNeverReanalysed ==
    lastOp.op = "discover" /\ lastOp.wasWarm => lastOp.analysed = {}


(***************************************************************************)
(* The cross-file passes of ProjectDiscovery (discovery.py).  files maps   *)
(* a file's stem to the file; a ConversationFile c is the analysis of      *)
(* files[c.path[2]].                                                       *)
(***************************************************************************)

\* _get_last_uuid_optimized: the last 20 lines in reverse, then the earlier
\* lines in reverse, which is the whole file from its end.  A line that does
\* not parse is skipped; a line that is valid JSON but no object raises
\* AttributeError, which the outer handler turns into None.
RECURSIVE LastUuidFrom(_, _)
LastUuidFrom(ls, i) ==
    IF i = 0 THEN None
    ELSE IF ls[i].json = "nonobj" THEN None
    ELSE IF IsObj(ls[i]) /\ ls[i].uuid # None THEN ls[i].uuid
    ELSE LastUuidFrom(ls, i - 1)

GetLastUuidOptimized(f) ==
    IF ~f.readable THEN None ELSE LastUuidFrom(f.lines, Len(f.lines))

\* sorted(..., key=...) and list.sort(key=...): a stable sort, as an
\* insertion sort over <<key, element>> pairs that puts each element after
\* the elements whose key is not greater
RECURSIVE InsertByKey(_, _)
InsertByKey(sorted, p) ==
    IF sorted = <<>> THEN <<p>>
    ELSE IF sorted[Len(sorted)][1] <= p[1] THEN Append(sorted, p)
    ELSE Append(InsertByKey(SubSeq(sorted, 1, Len(sorted) - 1), p),
                sorted[Len(sorted)])

RECURSIVE SortPairs(_)
SortPairs(ps) ==
    IF ps = <<>> THEN <<>>
    ELSE InsertByKey(SortPairs(SubSeq(ps, 1, Len(ps) - 1)), ps[Len(ps)])

\* key=lambda c: c.first_timestamp or "": a file without timestamp sorts first
SortedByTimestamp(conversations) ==
    LET ps == SortPairs([i \in 1..Len(conversations) |->
                           <<conversations[i].first_timestamp, conversations[i]>>])
    IN  [i \in 1..Len(ps) |-> ps[i][2]]

\* the first pass of find_continuation_chains, lines 558-577: the last uuid
\* of each file, in timestamp order, keeping the last mapping of a uuid
UuidToSessionKeepLast(conversations, files) ==
    LET sorted_convs == SortedByTimestamp(conversations)
        last(i) == GetLastUuidOptimized(files[sorted_convs[i].path[2]])
        idx == 1..Len(sorted_convs)
        keys == {last(i) : i \in idx} \ {None}
    IN  [u \in keys |->
            sorted_convs[CHOOSE i \in idx :
                /\ last(i) = u
                /\ \A j \in idx : last(j) = u => j <= i].session_id]

\* the first pass of find_continuation_chains, lines 558-577: the last uuid
\* of each file, in timestamp order, keeping the first mapping of a uuid
UuidToSession(conversations, files) ==
    LET sorted_convs == SortedByTimestamp(conversations)
        last(i) == GetLastUuidOptimized(files[sorted_convs[i].path[2]])
        idx == 1..Len(sorted_convs)
        keys == {last(i) : i \in idx} \ {None}
    IN  [u \in keys |->
            sorted_convs[CHOOSE i \in idx :
                /\ last(i) = u
                /\ \A j \in idx : last(j) = u => i <= j].session_id]

\* lines 551-556: one edge per file that carries a parent_session_id
ParentEdges(conversations) ==
    LET has(c) == c.parent_session_id # None
        edge(c) == <<c.parent_session_id, c.session_id>>
        picked == SelectSeq(conversations, has)
    IN  [i \in 1..Len(picked) |-> edge(picked[i])]

\* lines 579-588 without the tests on the completion marker and on the
\* file itself
LeafEdgesUntested(conversations, files) ==
    LET map == UuidToSession(conversations, files)
        has(c) == /\ c.starts_with_summary
                  /\ c.leaf_uuid # None
                  /\ c.leaf_uuid \in DOMAIN map
        picked == SelectSeq(conversations, has)
    IN  [i \in 1..Len(picked) |-> <<map[picked[i].leaf_uuid], picked[i].session_id>>]

\* lines 579-588: one edge per file that starts with a summary whose
\* leafUuid is the last uuid of another file; completion markers yield none
LeafEdges(conversations, files) ==
    LET map == UuidToSession(conversations, files)
        has(c) == /\ c.starts_with_summary
                  /\ c.leaf_uuid # None
                  /\ ~c.is_completion_marker
                  /\ c.leaf_uuid \in DOMAIN map
                  /\ map[c.leaf_uuid] # c.session_id
        picked == SelectSeq(conversations, has)
    IN  [i \in 1..Len(picked) |-> <<map[picked[i].leaf_uuid], picked[i].session_id>>]

\* find_continuation_chains: parent session id -> list of child session ids,
\* in the order the edges were appended
FindContinuationChains(conversations, files) ==
    LET edges == ParentEdges(conversations) \o LeafEdges(conversations, files)
        parents == {edges[i][1] : i \in 1..Len(edges)}
        under(p) == LET from(e) == e[1] = p
                        sel == SelectSeq(edges, from)
                    IN  [i \in 1..Len(sel) |-> sel[i][2]]
    IN  [p \in parents |-> under(p)]

\* _is_compaction_continuation: isCompactSummary of the first line.  An
\* unreadable file, an empty file and a first line that does not parse give
\* False; a first line that is valid JSON but no object raises
\* AttributeError, which the function does not catch.
CompactionCheckRaises(f) ==
    f.readable /\ Len(f.lines) > 0 /\ f.lines[1].json = "nonobj"

\* _is_compaction_continuation answering False for every file
IsCompactionContinuationNever(f) == f.readable /\ ~f.readable

IsCompactionContinuation(f) ==
    f.readable /\ Len(f.lines) > 0 /\ IsObj(f.lines[1])
               /\ f.lines[1].isCompactSummary

\* lines 487-493, with every file sharing exactly all of the smaller sample
SignificantOverlapWhole(a, b) ==
    LET overlap == a.message_uuids \cap b.message_uuids
        smaller_size == Min(Cardinality(a.message_uuids),
                            Cardinality(b.message_uuids))
    IN  overlap # {} /\ Cardinality(overlap) = smaller_size

\* lines 487-493: len(overlap) > smaller_size * 0.8, in integers
SignificantOverlap(a, b) ==
    LET overlap == a.message_uuids \cap b.message_uuids
        smaller_size == Min(Cardinality(a.message_uuids),
                            Cardinality(b.message_uuids))
    IN  overlap # {} /\ 5 * Cardinality(overlap) > 4 * smaller_size

\* lines 477-493 without the test on processed for the other files
SnapshotGroupAnyFile(c, non_continuations, processed) ==
    LET joins(other) == /\ other.path # c.path
                        /\ other.message_uuids # {}
                        /\ SignificantOverlap(c, other)
    IN  <<c>> \o SelectSeq(non_continuations, joins)

\* lines 477-493: the file and every file not yet processed, in list order,
\* that has a sample and a significant overlap with it
SnapshotGroup(c, non_continuations, processed) ==
    LET joins(other) == /\ other.path \notin processed \cup {c.path}
                        /\ other.message_uuids # {}
                        /\ SignificantOverlap(c, other)
    IN  <<c>> \o SelectSeq(non_continuations, joins)

\* lines 499-513: the group sorted by message_count; the survivor is the
\* largest member that starts with a summary, else the largest member
SelectedOf(group) ==
    LET ps == SortPairs([i \in 1..Len(group) |->
                           <<group[i].message_count, group[i]>>])
        withSummary == {i \in 1..Len(ps) : ps[i][2].starts_with_summary}
    IN  IF withSummary # {}
        THEN ps[CHOOSE i \in withSummary : \A j \in withSummary : j <= i][2]
        ELSE ps[Len(ps)][2]

\* the loop of lines 463-520 from position i on.  st holds processed (set
\* of paths), result (list of paths), marked (paths set is_snapshot) and
\* groups (the groups formed, each the list of its members' paths)
RECURSIVE SnapshotLoop(_, _, _)
SnapshotLoop(nc, i, st) ==
    IF i > Len(nc) THEN st
    ELSE LET c == nc[i] IN
         IF c.path \in st.processed THEN SnapshotLoop(nc, i + 1, st)
         ELSE IF c.message_uuids = {}
         THEN SnapshotLoop(nc, i + 1,
                 [st EXCEPT !.processed = @ \cup {c.path},
                            !.result = Append(@, c.path)])
         ELSE LET group == SnapshotGroup(c, nc, st.processed)
                  paths == [k \in 1..Len(group) |-> group[k].path]
                  selected == SelectedOf(group)
              IN  SnapshotLoop(nc, i + 1,
                     [processed |-> st.processed \cup Range(paths),
                      result |-> Append(st.result, selected.path),
                      marked |-> st.marked \cup
                                   {g.path : g \in {h \in Range(group) : h # selected}},
                      groups |-> Append(st.groups, paths)])

\* detect_and_filter_snapshots returning the same list without marking the
\* files it leaves out
DetectAndFilterSnapshotsUnmarked(conversations, files) ==
    LET exempt(c) == IsCompactionContinuation(files[c.path[2]])
        other(c) == ~exempt(c)
        continuations == SelectSeq(conversations, exempt)
        non_continuations == SelectSeq(conversations, other)
        st == SnapshotLoop(non_continuations, 1,
                 [processed |-> {},
                  result |-> [k \in 1..Len(continuations) |-> continuations[k].path],
                  marked |-> {}, groups |-> <<>>])
    IN  [result |-> st.result,
         groups |-> st.groups,
         conversations |-> conversations]

\* detect_and_filter_snapshots: the exempt files first, then the loop; the
\* files it marks are the objects of the list it was given
DetectAndFilterSnapshots(conversations, files) ==
    LET exempt(c) == IsCompactionContinuation(files[c.path[2]])
        other(c) == ~exempt(c)
        continuations == SelectSeq(conversations, exempt)
        non_continuations == SelectSeq(conversations, other)
        st == SnapshotLoop(non_continuations, 1,
                 [processed |-> {},
                  result |-> [k \in 1..Len(continuations) |-> continuations[k].path],
                  marked |-> {}, groups |-> <<>>])
    IN  [result |-> st.result,
         groups |-> st.groups,
         conversations |->
            [k \in 1..Len(conversations) |->
                IF conversations[k].path \in st.marked
                THEN [conversations[k] EXCEPT !.is_snapshot = TRUE,
                                              !.snapshot_type = "intermediate"]
                ELSE conversations[k]]]


(***************************************************************************)
(* The resolver specification: a project folder of three logs, analysed    *)
(* in the order the directory listing gives them, then the two passes in   *)
(* the order create_archive runs them.                                     *)
(***************************************************************************)
SessionNames == <<"a", "b", "c">>
Sessions == Range(SessionNames)
ResolverProject == "pA"

UuidNames ==
    <<"u1", "u2", "u3", "u4", "u5", "u6", "u7", "u8", "u9", "u10", "u11",
      "u12", "u13", "u14", "u15", "u16", "u17", "u18", "u19", "u20", "u21",
      "u22", "u23", "u24">>
U(i) == UuidNames[i]

\* user records with the uuids lo..hi, all written at time ts
UserLines(lo, hi, ts) ==
    [i \in 1..(hi - lo + 1) |->
        [BaseLine EXCEPT !.uuid = U(lo + i - 1), !.timestamp = ts]]

SummaryHead(leaf) == [BaseLine EXCEPT !.type = "summary", !.leafUuid = leaf]

CompactHead(sid, lo, ts) ==
    [BaseLine EXCEPT !.isCompactSummary = TRUE, !.sessionId = sid,
                     !.uuid = U(lo), !.timestamp = ts]

Log(ls) == File(ls, Len(ls))

\* a conversation that ends with u2, and a later copy of it
EndsU2 == Log(UserLines(1, 2, 1))
EndsU2Late == Log(UserLines(1, 2, 3))
\* a conversation that holds u2 as its last record but one
HoldsU2 == Log(UserLines(1, 3, 1))
\* a conversation of five records
FiveLog == Log(UserLines(1, 5, 1))
\* continuations: a summary naming the leaf, then new records
FromU2 == Log(<<SummaryHead(U(2))>> \o UserLines(2, 6, 2))
FromU6 == Log(<<SummaryHead(U(6))>> \o UserLines(1, 2, 2))
\* a completion marker: the summary alone
MarkerU2 == Log(<<SummaryHead(U(2))>>)
\* a lone summary record that carries the uuid u2 itself
UuidMarker == Log(<<[SummaryHead(U(9)) EXCEPT !.uuid = U(2)]>>)
\* post-compaction continuations of the sessions a and b
CompactOfA == Log(<<CompactHead("a", 1, 2)>> \o UserLines(2, 2, 2))
CompactOfB == Log(<<CompactHead("b", 2, 2)>> \o UserLines(3, 21, 2))
\* logs with a line that is valid JSON but no object
NonObjFirst == Log(<<NonObjLine>> \o UserLines(1, 2, 1))
NonObjLast == Log(UserLines(1, 2, 1) \o <<NonObjLine>>)
\* long conversations: twenty records, the same shifted by one, and a
\* resumed copy that holds them all
LongLog == Log(UserLines(1, 20, 1))
ShiftedLog == Log(UserLines(2, 21, 2))
ResumedLog == Log(<<SummaryHead(U(21))>> \o UserLines(1, 21, 3))
\* a conversation that shares no record with the others
OtherLog == Log(UserLines(22, 24, 1))

ResolverLogs ==
    {NoFile, EndsU2, EndsU2Late, HoldsU2, FiveLog, FromU2, FromU6, MarkerU2,
     CompactOfA, CompactOfB, NonObjFirst, NonObjLast, LongLog, ShiftedLog,
     ResumedLog, OtherLog, UuidMarker}

GlobOrders(S) == {p \in [1..Cardinality(S) -> S] : Range(p) = S}

PathOf(name) == <<ResolverProject, name>>
FileOf(c) == rfiles[c.path[2]]

InitResolve ==
    /\ DagIdle /\ PatternIdle
    /\ rfiles \in [Sessions -> ResolverLogs]
    /\ convs = <<>> /\ chains = EmptyMap /\ kept = <<>> /\ groups = <<>>
    /\ rpc = "idle" /\ fillers = 0
    /\ CacheIdle /\ AnalysisIdle

ResolverFrame ==
    UNCHANGED <<fs, version, cache, disk, lastOp, warm, stored, saved,
                afile, conv, pc, rfiles, fillers, dag, pattern>>

\* the analysis loop of discover_project_conversations without cache:
\* every *.jsonl of the folder analysed, in the order glob lists them
ScanFolder ==
    /\ rpc = "idle"
    /\ \E order \in GlobOrders(Sessions) :
          convs' = [i \in 1..Len(order) |->
                       AnalyzeConversationFile(PathOf(order[i]), rfiles[order[i]])]
    /\ rpc' = "scanned"
    /\ UNCHANGED <<chains, kept, groups>>
    /\ ResolverFrame

\* create_archive, line 157
CallFindContinuationChains ==
    /\ rpc = "scanned"
    /\ chains' = FindContinuationChains(convs, rfiles)
    /\ rpc' = "chained"
    /\ UNCHANGED <<convs, kept, groups>>
    /\ ResolverFrame

\* create_archive, line 165: the pass returns
CallDetectAndFilterSnapshots ==
    /\ rpc = "chained"
    /\ \A c \in Range(convs) : ~CompactionCheckRaises(FileOf(c))
    /\ LET r == DetectAndFilterSnapshots(convs, rfiles) IN
          /\ convs' = r.conversations
          /\ kept' = r.result
          /\ groups' = r.groups
    /\ rpc' = "filtered"
    /\ UNCHANGED chains
    /\ ResolverFrame

\* detect_and_filter_snapshots called once more on the same list, with the
\* marks of the first call on its files
CallDetectAndFilterSnapshotsAgain ==
    /\ rpc = "filtered"
    /\ LET r == DetectAndFilterSnapshots(convs, rfiles) IN
          /\ convs' = r.conversations
          /\ kept' = r.result
          /\ groups' = r.groups
    /\ rpc' = "refiltered"
    /\ UNCHANGED chains
    /\ ResolverFrame

\* create_archive, line 165: _is_compaction_continuation raises out of the
\* pass before any file is marked
SnapshotPassRaises ==
    /\ rpc = "chained"
    /\ \E c \in Range(convs) : CompactionCheckRaises(FileOf(c))
    /\ rpc' = "raised"
    /\ UNCHANGED <<convs, chains, kept, groups>>
    /\ ResolverFrame

NextResolve ==
    \/ ScanFolder
    \/ CallFindContinuationChains
    \/ CallDetectAndFilterSnapshots
    \/ CallDetectAndFilterSnapshotsAgain
    \/ SnapshotPassRaises

SpecResolve == InitResolve /\ [][NextResolve]_vars


(***************************************************************************)
(* Properties of the continuation-chain pass (SpecResolve).                *)
(***************************************************************************)
ChainsDone == rpc \in {"chained", "filtered", "raised"}

\* the ConversationFile of session name in the analysed list
ConvOf(name) == CHOOSE c \in Range(convs) : c.session_id = name

HasEdge(parent, child) ==
    parent \in DOMAIN chains /\ child \in Range(chains[parent])

\* the window _get_last_uuid_optimized reads first
TailWindow == 20

\* the file holds a record with uuid x among its last TailWindow lines
HoldsNearEnd(f, x) ==
    /\ f.readable
    /\ \E i \in 1..Len(f.lines) :
          /\ i > Len(f.lines) - TailWindow
          /\ IsObj(f.lines[i]) /\ f.lines[i].uuid = x

\* the file's first line is a summary record whose leafUuid is x
LeadsWithLeaf(f, x) ==
    /\ f.readable /\ Len(f.lines) > 0
    /\ IsObj(f.lines[1]) /\ f.lines[1].type = "summary"
    /\ f.lines[1].leafUuid = x

\* the last record of the file that carries a uuid carries x, and every
\* line after it is an object or does not parse
EndsWith(f, x) ==
    /\ f.readable
    /\ \E i \in 1..Len(f.lines) :
          /\ IsObj(f.lines[i]) /\ f.lines[i].uuid = x
          /\ \A j \in (i + 1)..Len(f.lines) :
                /\ f.lines[j].json # "nonobj"
                /\ ~(IsObj(f.lines[j]) /\ f.lines[j].uuid # None)

Earlier(a, b) ==
    /\ ConvOf(a).first_timestamp # 0
    /\ ConvOf(a).first_timestamp < ConvOf(b).first_timestamp

TerminalLeafCase(a, b, x) ==
    /\ a # b
    /\ ConvOf(b).starts_with_summary
    /\ ConvOf(b).leaf_uuid = x
    /\ ~ConvOf(b).is_completion_marker
    /\ EndsWith(rfiles[a], x)
    /\ \A c \in Sessions \ {a} :
          EndsWith(rfiles[c], x) =>
             ConvOf(a).first_timestamp < ConvOf(c).first_timestamp

ChainEdges ==
    UNION {{<<p, chains[p][i]>> : i \in 1..Len(chains[p])} : p \in DOMAIN chains}

\* m is reached from n by following between one and k edges
RECURSIVE ReachesWithin(_, _, _)
ReachesWithin(n, m, k) ==
    /\ k > 0
    /\ \/ <<n, m>> \in ChainEdges
       \/ \E e \in ChainEdges : e[1] = n /\ ReachesWithin(e[2], m, k - 1)

\* C8: the continuation edges form an acyclic graph: no session reaches
\* itself by following one or more edges.
C8_ChainsAcyclic ==
    ChainsDone =>
        \A n \in Sessions : ~ReachesWithin(n, n, Cardinality(Sessions))


(***************************************************************************)
(* Properties of the snapshot pass (SpecResolve).                          *)
(***************************************************************************)
Filtered == rpc = "filtered"

Exempt(c) == IsCompactionContinuation(FileOf(c))

\* the files the pass groups: not exempt, with a sample of uuids
Sampled == {c \in Range(convs) : ~Exempt(c) /\ c.message_uuids # {}}

\* the two samples share more than 80% of the smaller one
SharesOverEighty(a, b) ==
    LET shared == Cardinality(a.message_uuids \cap b.message_uuids)
        na == Cardinality(a.message_uuids)
        nb == Cardinality(b.message_uuids)
    IN  shared > 0 /\ 5 * shared > 4 * (IF na <= nb THEN na ELSE nb)

Survivors(group) == {p \in Range(group) : ~ConvOf(p[2]).is_snapshot}

\* C9: the pass partitions the non-exempt files that have identifier
\* samples into pairwise disjoint groups, formed with an overlap test that
\* is symmetric, and every group of more than one file ends with exactly
\* one member not marked is_snapshot and all its other members marked.
C9_SnapshotGroupsPartition ==
    Filtered =>
        /\ \A i, j \in 1..Len(groups) :
              i # j => Range(groups[i]) \cap Range(groups[j]) = {}
        /\ \A i \in 1..Len(groups) : Cardinality(Range(groups[i])) = Len(groups[i])
        /\ UNION {Range(groups[i]) : i \in 1..Len(groups)} = {c.path : c \in Sampled}
        /\ \A a, b \in Sampled :
              /\ SignificantOverlap(a, b) <=> SignificantOverlap(b, a)
              /\ SignificantOverlap(a, b) <=> SharesOverEighty(a, b)
        /\ \A i \in 1..Len(groups) : \A k \in 2..Len(groups[i]) :
              SharesOverEighty(ConvOf(groups[i][1][2]), ConvOf(groups[i][k][2]))
        /\ \A i \in 1..Len(groups) :
              Len(groups[i]) > 1 =>
                 /\ Cardinality(Survivors(groups[i])) = 1
                 /\ Survivors(groups[i]) \subseteq Range(kept)
                 /\ \A p \in Range(groups[i]) \ Survivors(groups[i]) :
                       ConvOf(p[2]).snapshot_type = "intermediate"

\* a folder split into a group of two files and a file on its own
C9_Witness ==
    /\ Filtered
    /\ Len(groups) = 2
    /\ \E i \in 1..2 : Len(groups[i]) = 2 /\ Cardinality(Survivors(groups[i])) = 1

\* the two samples share exactly 95% of the smaller one
SharesNinetyFive(a, b) ==
    LET shared == Cardinality(a.message_uuids \cap b.message_uuids)
        na == Cardinality(a.message_uuids)
        nb == Cardinality(b.message_uuids)
    IN  shared > 0 /\ 20 * shared = 19 * (IF na <= nb THEN na ELSE nb)

\* exactly one of the two is marked and the other is in the returned list
OneSnapshotOneSurvivor(c, d) ==
    \/ c.is_snapshot /\ ~d.is_snapshot /\ d.path \in Range(kept)
    \/ d.is_snapshot /\ ~c.is_snapshot /\ c.path \in Range(kept)

\* C10 as stated: of two files whose samples overlap at 95% of the smaller
\* one, exactly one is marked is_snapshot and the other is the survivor.
C10_NinetyFiveMarksOne ==
    Filtered =>
        \A c, d \in Range(convs) :
            c # d /\ SharesNinetyFive(c, d) => OneSnapshotOneSurvivor(c, d)

\* neither file is exempt and no other grouped file shares more than 80%
\* with either of them
IsolatedPair(c, d) ==
    /\ c # d /\ c \in Sampled /\ d \in Sampled
    /\ SharesNinetyFive(c, d)
    /\ \A e \in Sampled \ {c, d} :
          ~SharesOverEighty(e, c) /\ ~SharesOverEighty(e, d)

\* C10 amended: of two files, neither a post-compaction continuation, whose
\* samples overlap at 95% of the smaller one while no other non-exempt file
\* shares more than 80% with either, exactly one is marked is_snapshot and
\* the other is the survivor.
C10_IsolatedPairMarksOne ==
    Filtered =>
        \A c, d \in Range(convs) :
            IsolatedPair(c, d) => OneSnapshotOneSurvivor(c, d)

\* an isolated pair beside a third grouped file, one of the pair marked
C10_Witness ==
    /\ Filtered
    /\ \E c, d \in Range(convs) :
          /\ IsolatedPair(c, d)
          /\ OneSnapshotOneSurvivor(c, d)
          /\ Sampled \ {c, d} # {}


\* the file's first line is a record flagged isCompactSummary = true
FirstRecordCompact(f) ==
    /\ f.readable /\ Len(f.lines) > 0
    /\ IsObj(f.lines[1]) /\ f.lines[1].isCompactSummary

\* C11: a file whose first record is flagged isCompactSummary = true is in
\* the list the snapshot pass returns and is never marked is_snapshot by
\* it, whatever its identifier overlap with other files.
C11_CompactionExempt ==
    \A c \in Range(convs) :
        FirstRecordCompact(FileOf(c)) =>
            /\ ~c.is_snapshot
            /\ Filtered => c.path \in Range(kept)

\* a post-compaction continuation kept beside a larger file that starts
\* with a summary and holds more than 80% of its sample
C11_Witness ==
    /\ Filtered
    /\ \E c, d \in Range(convs) :
          /\ FirstRecordCompact(FileOf(c)) /\ ~FirstRecordCompact(FileOf(d))
          /\ SharesOverEighty(c, d)
          /\ d.starts_with_summary /\ d.message_count > c.message_count
          /\ c.path \in Range(kept) /\ ~c.is_snapshot


(***************************************************************************)
(* The sub-agent spawn pass (subagent_detector.py).  Times are seconds.    *)
(***************************************************************************)
RECURSIVE Flatten(_)
Flatten(seqs) ==
    IF seqs = <<>> THEN <<>> ELSE Head(seqs) \o Flatten(Tail(seqs))

\* a record that analyze_conversation_flow and extract_task_invocations
\* take for a Task invocation
IsTaskCall(l) ==
    IsObj(l) /\ l.type = "message" /\ l.role = "assistant" /\ l.task

\* analyze_conversation_flow raises: data.get on a line that is valid JSON
\* but no object is an AttributeError, which no handler of it catches
FlowRaises(f) ==
    f.readable /\ \E i \in 1..Len(f.lines) : f.lines[i].json = "nonobj"

\* analyze_conversation_flow, when it returns: where the Task calls are and
\* whether the file has at most two lines.  An unreadable file gives the
\* empty context.
AnalyzeConversationFlow(f) ==
    [task_invocation_indices |->
        IF f.readable
        THEN {i \in 1..Len(f.lines) : IsTaskCall(f.lines[i])} ELSE {},
     is_infrastructure_session |-> f.readable /\ Len(f.lines) <= 2]

\* detect_infrastructure_noise
DetectInfrastructureNoise(c, flow) ==
    IF c.message_count <= 1 THEN TRUE
    ELSE IF c.message_count <= 3 /\ flow.task_invocation_indices = {} THEN TRUE
    ELSE flow.is_infrastructure_session

\* str(data.get("uuid", "")) of a record without uuid
NoUuid == ""

\* extract_task_invocations: one invocation per Task call, in file order;
\* an unreadable file and any other exception (a line that is no object)
\* give the empty list
ExtractTaskInvocations(c, f) ==
    IF ~f.readable \/ \E i \in 1..Len(f.lines) : f.lines[i].json = "nonobj"
    THEN <<>>
    ELSE LET numbered == [i \in 1..Len(f.lines) |->
                             [data |-> f.lines[i], line_num |-> i]]
             isCall(x) == IsTaskCall(x.data)
             calls == SelectSeq(numbered, isCall)
         IN  [k \in 1..Len(calls) |->
                [message_uuid |-> IF calls[k].data.uuid = None THEN NoUuid
                                  ELSE calls[k].data.uuid,
                 timestamp |-> calls[k].data.timestamp,
                 message_count_before |-> calls[k].line_num,
                 session_id |-> c.session_id]]

\* the three tests of _has_compatible_parent_chain on one record.  A record
\* without content field has the content "", and "" holds the empty string.
MentionsParent(l, parent_uuid) ==
    /\ IsObj(l)
    /\ \/ l.parentUuid = parent_uuid
       \/ parent_uuid = NoUuid
       \/ l.content = parent_uuid
       \/ l.leafUuid = parent_uuid

\* the number of leading lines _has_compatible_parent_chain reads
ParentChainLines == 5

\* _has_compatible_parent_chain: the first lines in order; a line that is no
\* object raises, and the handler answers False
HasCompatibleParentChain(parent_uuid, f) ==
    /\ f.readable
    /\ \E i \in 1..Min(ParentChainLines, Len(f.lines)) :
          /\ MentionsParent(f.lines[i], parent_uuid)
          /\ \A j \in 1..(i - 1) : f.lines[j].json # "nonobj"

\* the window of _find_matching_sidechains, in seconds
SpawnWindow == 600

\* A timestamp of the model is the rank of its text in string order, which
\* is what first_timestamp is sorted and compared by.  Every text is a UTC
\* time "2025-01-01T00:mm:ssZ", whose rank is its second of the day, except
\* OffsetStamp, the text "2025-01-01T01:00:05+01:00": it sorts after every
\* text of the first hour and names second 5.
OffsetStamp == 3605

\* datetime.fromisoformat in _calculate_temporal_gap: the instant a text
\* names, in seconds of the day
TimeOf(t) == IF t = OffsetStamp THEN 5 ELSE t

\* _is_timestamp_after: timestamp1 > timestamp2 on the texts
IsTimestampAfter(timestamp1, timestamp2) == timestamp1 > timestamp2

\* _calculate_temporal_gap
CalculateTemporalGap(start_timestamp, end_timestamp) ==
    TimeOf(end_timestamp) - TimeOf(start_timestamp)

\* _find_matching_sidechains: the sessions that start after the invocation,
\* within the window, and mention its record
FindMatchingSidechains(invocation, all_conversations, files) ==
    LET matches(c) ==
            /\ c.session_id # invocation.session_id
            /\ c.first_timestamp # 0 /\ invocation.timestamp # 0
            /\ IsTimestampAfter(c.first_timestamp, invocation.timestamp)
            /\ ~(CalculateTemporalGap(invocation.timestamp, c.first_timestamp)
                    > SpawnWindow)
            /\ HasCompatibleParentChain(invocation.message_uuid, files[c.path[2]])
        found == SelectSeq(all_conversations, matches)
    IN  [k \in 1..Len(found) |-> found[k].session_id]

\* detect_cross_session_relationships, when phase 1 does not raise: the
\* relationships in the order they are appended, each with its parent,
\* child and invocation
DetectCrossSessionRelationships(conversations, files) ==
    LET fileOf(c) == files[c.path[2]]
        invocationsOf(c) ==
            IF DetectInfrastructureNoise(c, AnalyzeConversationFlow(fileOf(c)))
            THEN <<>> ELSE ExtractTaskInvocations(c, fileOf(c))
        all_invocations ==
            Flatten([k \in 1..Len(conversations) |-> invocationsOf(conversations[k])])
        relsOf(inv) ==
            LET kids == FindMatchingSidechains(inv, conversations, files)
            IN  [k \in 1..Len(kids) |->
                   [parent_session_id |-> inv.session_id,
                    child_session_id |-> kids[k],
                    invocation_uuid |-> inv.message_uuid]]
    IN  Flatten([k \in 1..Len(all_invocations) |-> relsOf(all_invocations[k])])

\* discover_project_conversations, lines 180-194: the parent lists the
\* children of all its relationships; a child is marked and names the
\* parent of the last dictionary entry that holds it
ApplyRelationships(conversations, rels) ==
    LET parentsInOrder ==
            LET first(k) == \A j \in 1..(k - 1) :
                    rels[j].parent_session_id # rels[k].parent_session_id
                idx == {k \in 1..Len(rels) : first(k)}
                pick(r) == \E k \in idx : rels[k] = r
                firsts == SelectSeq(rels, pick)
            IN  [k \in 1..Len(firsts) |-> firsts[k].parent_session_id]
        childrenOf(p) ==
            LET under(r) == r.parent_session_id = p
                sel == SelectSeq(rels, under)
            IN  [k \in 1..Len(sel) |-> sel[k].child_session_id]
        parentsOf(id) ==
            LET holds(p) == id \in Range(childrenOf(p))
            IN  SelectSeq(parentsInOrder, holds)
        update(c) ==
            LET ps == parentsOf(c.session_id)
                c1 == IF c.session_id \in Range(parentsInOrder)
                      THEN [c EXCEPT !.child_session_ids = childrenOf(c.session_id)]
                      ELSE c
            IN  IF ps = <<>> THEN c1
                ELSE [c1 EXCEPT !.is_subagent_sidechain = TRUE,
                                !.parent_session_ids = <<ps[Len(ps)]>>]
    IN  [k \in 1..Len(conversations) |-> update(conversations[k])]


(***************************************************************************)
(* The discovery specification: discover_project_conversations over a      *)
(* folder of three logs and a number of empty logs.  An empty log is       *)
(* analysed to a ConversationFile without records, identifiers and         *)
(* timestamp: the snapshot pass keeps it, the spawn pass counts it as      *)
(* infrastructure noise and never matches it, so it only adds to the       *)
(* length of the list.                                                     *)
(***************************************************************************)
\* the size guard of the spawn pass, discovery.py line 171
SpawnGuard == 500

\* line 171: len(conversations) > 500
SpawnPassSkipped(n) == n > SpawnGuard

MaxFillers == 498
FillerCounts == ((SpawnGuard - 3)..MaxFillers) \cup {SpawnGuard + 97}

TaskLine(i, ts) ==
    [BaseLine EXCEPT !.type = "message", !.role = "assistant", !.task = TRUE,
                     !.uuid = U(i), !.timestamp = ts]

SpawnedHead(i, parent, ts) ==
    [BaseLine EXCEPT !.uuid = U(i), !.parentUuid = U(parent), !.timestamp = ts]

\* an assistant record of the documented format whose message.content holds
\* a tool_use block that names Task
ToolUseLine(i, ts) ==
    [BaseLine EXCEPT !.type = "assistant", !.tool_use = "Task",
                     !.uuid = U(i), !.timestamp = ts]

\* a session that calls Task in its record u3 at second 10
ParentLog == Log(UserLines(1, 2, 1) \o <<TaskLine(3, 10)>> \o UserLines(4, 5, 11))
\* the same session with the call as a tool_use block, record u16
ToolUseLog ==
    Log(UserLines(1, 2, 1) \o <<ToolUseLine(16, 10)>> \o UserLines(4, 5, 11))
\* a session whose first record names u16 as its parent
ToolUseChildLog == Log(<<SpawnedHead(17, 16, 20)>> \o UserLines(18, 19, 21))
\* sessions whose first record names u3 as its parent, started 10 seconds
\* and 601 seconds after the call
ChildLog == Log(<<SpawnedHead(7, 3, 20)>> \o UserLines(8, 9, 21))
LateChildLog == Log(<<SpawnedHead(10, 3, 611)>> \o UserLines(11, 12, 612))
\* a session that names u3 as its parent and whose records carry the
\* timestamp with the offset
OffsetChildLog ==
    Log(<<SpawnedHead(13, 3, OffsetStamp)>> \o UserLines(14, 15, OffsetStamp))

DiscoveryLogs ==
    {NoFile, ParentLog, ChildLog, LateChildLog, OffsetChildLog, ToolUseLog,
     ToolUseChildLog, LongLog, ShiftedLog, NonObjFirst, NonObjLast}

InitDiscover ==
    /\ DagIdle /\ PatternIdle
    /\ rfiles \in [Sessions -> DiscoveryLogs]
    /\ fillers \in FillerCounts
    /\ convs = <<>> /\ chains = EmptyMap /\ kept = <<>> /\ groups = <<>>
    /\ rpc = "idle"
    /\ CacheIdle /\ AnalysisIdle

DiscoverFrame ==
    UNCHANGED <<fs, version, cache, disk, warm, stored, saved,
                afile, conv, pc, rfiles, fillers, dag, pattern, chains>>

\* the conversations of the list whose path is in paths, in the order of paths
ListOf(paths, conversations) ==
    [k \in 1..Len(paths) |->
        CHOOSE c \in Range(conversations) : c.path = paths[k]]

\* discover_project_conversations(project, exclude_snapshots) without
\* cache, lines 113-201: analysis in glob order, the snapshot pass when
\* asked for, the size guard, the spawn pass, the update of the files
DiscoverProject(exclude_snapshots, order) ==
    /\ rpc = "idle"
    /\ \E analysed \in {[i \in 1..Len(order) |->
                           AnalyzeConversationFile(PathOf(order[i]), rfiles[order[i]])]} :
         LET files == Len(order) + fillers
             filterRaises == /\ exclude_snapshots
                             /\ \E c \in Range(analysed) : CompactionCheckRaises(FileOf(c))
         IN  IF filterRaises
             THEN /\ rpc' = "raised"
                  /\ lastOp' = [op |-> "discover", files |-> files,
                                exclude |-> exclude_snapshots, reached |-> FALSE,
                                listed |-> 0, spawn |-> "unreached",
                                rels |-> <<>>]
                  /\ UNCHANGED <<convs, kept, groups>>
             ELSE \E filtered \in {IF exclude_snapshots
                                   THEN DetectAndFilterSnapshots(analysed, rfiles)
                                   ELSE [result |-> <<>>, groups |-> <<>>,
                                         conversations |-> analysed]} :
                  \E conversations \in {IF exclude_snapshots
                                        THEN ListOf(filtered.result, filtered.conversations)
                                        ELSE analysed} :
                    LET listed == Len(conversations) + fillers
                        skipped == SpawnPassSkipped(listed)
                        spawnRaises ==
                            ~skipped /\ \E c \in Range(conversations) : FlowRaises(FileOf(c))
                    IN  IF spawnRaises
                        THEN /\ rpc' = "raised"
                             /\ lastOp' = [op |-> "discover", files |-> files,
                                           exclude |-> exclude_snapshots,
                                           reached |-> TRUE, listed |-> listed,
                                           spawn |-> "raised", rels |-> <<>>]
                             /\ UNCHANGED <<convs, kept, groups>>
                        ELSE \E rels \in {IF skipped THEN <<>>
                                          ELSE DetectCrossSessionRelationships(
                                                   conversations, rfiles)} :
                             /\ rpc' = "returned"
                             /\ lastOp' = [op |-> "discover", files |-> files,
                                           exclude |-> exclude_snapshots,
                                           reached |-> TRUE, listed |-> listed,
                                           spawn |-> IF skipped THEN "skipped" ELSE "ran",
                                           rels |-> rels]
                             /\ convs' = ApplyRelationships(conversations, rels)
                             /\ kept' = [k \in 1..Len(conversations) |->
                                            conversations[k].path]
                             /\ groups' = filtered.groups
    /\ DiscoverFrame

NextDiscover ==
    \E exclude_snapshots \in BOOLEAN, order \in GlobOrders(Sessions) :
        DiscoverProject(exclude_snapshots, order)

SpecDiscover == InitDiscover /\ [][NextDiscover]_vars


(***************************************************************************)
(* Properties of discover_project_conversations (SpecDiscover).            *)
(***************************************************************************)
Discovered == lastOp.op = "discover"

\* no returned file carries a spawn edge
NoSpawnEdge ==
    \A c \in Range(convs) :
        /\ c.child_session_ids = <<>>
        /\ c.parent_session_ids = <<>>
        /\ ~c.is_subagent_sidechain

\* C12: a folder of more than 500 logs is discovered with the spawn pass
\* skipped and no spawn edge on any returned file; with 500 logs or fewer
\* the pass runs.  Stated for the runs that return.
C12_LargeFolderSkipsSpawnPass ==
    Discovered /\ rpc = "returned" =>
        /\ lastOp.files > SpawnGuard => lastOp.spawn = "skipped" /\ NoSpawnEdge
        /\ lastOp.files <= SpawnGuard => lastOp.spawn = "ran"


(***************************************************************************)
(* ConversationParser.parse_file (parser.py).                              *)
(***************************************************************************)
\* MessageType
MessageTypes == {"user", "assistant", "system", "summary"}

\* ConversationEntry(**data) validates: the type is a MessageType and the
\* message, when present, is an object
Validates(l) == IsObj(l) /\ l.type \in MessageTypes /\ l.msgok

\* parse_file: blank lines are skipped; a line that is no JSON or does not
\* validate raises JSONDecodeError or ValueError inside the loop and is
\* dropped; a line that is valid JSON but no object makes _parse_entry
\* raise TypeError, which no handler catches; an unreadable file raises
\* ValueError
ParseFile(f) ==
    IF ~f.readable THEN [raised |-> "ValueError", entries |-> <<>>]
    ELSE IF \E i \in 1..Len(f.lines) : f.lines[i].json = "nonobj"
    THEN [raised |-> "TypeError", entries |-> <<>>]
    ELSE [raised |-> "none", entries |-> SelectSeq(f.lines, Validates)]

ParseCatalog ==
    {UserLine, SummaryLine, BadLine, BlankLine, NonObjLine, BadMessageLine,
     TaskLine(3, 10)}

ParseFiles == {NoFile} \cup {File(ls, 1) : ls \in SeqsUpTo(ParseCatalog, MaxLines)}

InitParse ==
    /\ DagIdle /\ PatternIdle
    /\ afile \in ParseFiles
    /\ conv = EmptyMap
    /\ pc = "parse"
    /\ CacheIdle /\ ResolverIdle

CallParseFile ==
    /\ pc = "parse"
    /\ lastOp' = [op |-> "parse_file", ret |-> ParseFile(afile)]
    /\ pc' = "done"
    /\ UNCHANGED <<afile, conv, fs, version, cache, disk, warm, stored, saved,
                   rfiles, convs, chains, kept, groups, rpc, fillers, dag, pattern>>

NextParse == CallParseFile

SpecParse == InitParse /\ [][NextParse]_vars

\* the line is an object that validates as a record
ParsesAsRecord(l) == l.json = "obj" /\ l.type \in MessageTypes /\ l.msgok

\* C13: parse_file returns, in file order, exactly the records of the lines
\* that parse; a line that fails to parse (invalid JSON, JSON that is not an
\* object, an object that does not validate) is dropped without aborting
\* the read, and parse_file raises only when the file cannot be opened.
C13_ParseFileDropsBadLines ==
    lastOp.op = "parse_file" =>
        /\ lastOp.ret.raised # "none" <=> ~afile.readable
        /\ afile.readable =>
              lastOp.ret.entries = SelectSeq(afile.lines, ParsesAsRecord)

\* C14: no per-file or per-line error aborts a run: whatever the folder
\* holds (unreadable logs, lines that are no JSON, lines that are valid JSON
\* but no object), the analysis of each file, the snapshot pass and the
\* spawn pass return normally, so the discovery returns.
C14_NoErrorAbortsRun ==
    Discovered => rpc = "returned"


(***************************************************************************)
(* ConversationDAG (models.py): add_message, extract_path, get_all_paths.  *)
(***************************************************************************)
\* identifiers of the messages handed to add_message
DagUuids == {"m1", "m2", "m3"}

\* parent_uuid of a MessageNode: none, or any identifier
DagParents == DagUuids \cup {None}

\* x in list
InSeq(x, list) == \E i \in 1..Len(list) : list[i] = x

\* list.reverse()
Reverse(list) == [i \in 1..Len(list) |-> list[Len(list) + 1 - i]]

\* list.remove(x): the list without the first x
RemoveFirst(list, x) ==
    LET at == CHOOSE i \in 1..Len(list) :
                  list[i] = x /\ \A j \in 1..(i - 1) : list[j] # x
    IN  [k \in 1..(Len(list) - 1) |-> IF k < at THEN list[k] ELSE list[k + 1]]

\* add_message without the test whether a stored node names the new one
AddMessageToAlwaysLeaf(d, uuid, parent_uuid) ==
    LET nodes == [u \in DOMAIN d.nodes \cup {uuid} |->
                      IF u = uuid THEN parent_uuid ELSE d.nodes[u]]
        leaves == IF parent_uuid # None /\ InSeq(parent_uuid, d.leaf_uuids)
                  THEN RemoveFirst(d.leaf_uuids, parent_uuid)
                  ELSE d.leaf_uuids
    IN  [d EXCEPT !.nodes = nodes,
                  !.leaf_uuids = IF ~InSeq(uuid, leaves)
                                 THEN Append(leaves, uuid) ELSE leaves]

\* add_message: the node is stored under its uuid (replacing a node of the
\* same uuid), the parent leaves leaf_uuids, and the node joins leaf_uuids
\* when no stored node names it as parent and it is not listed yet
AddMessageTo(d, uuid, parent_uuid) ==
    LET nodes == [u \in DOMAIN d.nodes \cup {uuid} |->
                      IF u = uuid THEN parent_uuid ELSE d.nodes[u]]
        leaves == IF parent_uuid # None /\ InSeq(parent_uuid, d.leaf_uuids)
                  THEN RemoveFirst(d.leaf_uuids, parent_uuid)
                  ELSE d.leaf_uuids
        is_leaf == ~\E u \in DOMAIN nodes : nodes[u] = uuid
    IN  [d EXCEPT !.nodes = nodes,
                  !.leaf_uuids = IF is_leaf /\ ~InSeq(uuid, leaves)
                                 THEN Append(leaves, uuid) ELSE leaves]

RECURSIVE WalkToRoot(_, _, _)
\* the loop of extract_path: follow parent_uuid until it is none.  A uuid
\* that is not a key of nodes raises KeyError; a walk longer than the number
\* of nodes has come back to a node it visited and never ends.
WalkToRoot(d, current_uuid, path) ==
    IF current_uuid = None THEN [outcome |-> "path", messages |-> Reverse(path)]
    ELSE IF current_uuid \notin DOMAIN d.nodes
    THEN [outcome |-> "KeyError", messages |-> <<>>]
    ELSE IF Len(path) >= Cardinality(DOMAIN d.nodes)
    THEN [outcome |-> "endless", messages |-> <<>>]
    ELSE WalkToRoot(d, d.nodes[current_uuid], Append(path, current_uuid))

ExtractPath(d, leaf_uuid) == WalkToRoot(d, leaf_uuid, <<>>)

\* get_all_paths: extract_path of every entry of leaf_uuids, in order
GetAllPaths(d) == [i \in 1..Len(d.leaf_uuids) |-> ExtractPath(d, d.leaf_uuids[i])]

InitDag ==
    /\ \E r \in DagUuids : dag = [NoDag EXCEPT !.root_uuid = r]
    /\ PatternIdle
    /\ lastOp = [op |-> "idle", distinct |-> TRUE]
    /\ fs = EmptyMap /\ version = None /\ cache = EmptyMap /\ disk = EmptyMap
    /\ warm = {} /\ stored = EmptyMap /\ saved = {}
    /\ ResolverIdle /\ AnalysisIdle

DagFrame ==
    UNCHANGED <<fs, version, cache, disk, warm, stored, saved, afile, conv, pc,
                rfiles, convs, chains, kept, groups, rpc, fillers, pattern>>

AddMessage(uuid, parent_uuid) ==
    /\ dag' = AddMessageTo(dag, uuid, parent_uuid)
    /\ lastOp' = [op |-> "add_message",
                  distinct |-> lastOp.distinct /\ uuid \notin DOMAIN dag.nodes]
    /\ DagFrame

CallGetAllPaths ==
    /\ lastOp' = [op |-> "get_all_paths", paths |-> GetAllPaths(dag),
                  distinct |-> lastOp.distinct]
    /\ UNCHANGED dag
    /\ DagFrame

NextDag ==
    \/ \E uuid \in DagUuids, parent_uuid \in DagParents : AddMessage(uuid, parent_uuid)
    \/ CallGetAllPaths

SpecDag == InitDag /\ [][NextDag]_vars

\* lastOp.distinct records the calls so far: TRUE as long as no add_message
\* call carried a uuid that an earlier call carried

\* how many times x occurs in list
Occurrences(x, list) == Cardinality({i \in 1..Len(list) : list[i] = x})

\* C15: in every graph built by add_message the root has no parent, and
\* get_all_paths returns one path per entry of leaf_uuids, each of which is
\* returned by extract_path, starts at the root, ends at its leaf and holds
\* the root exactly once.
C15_PathsRunFromRootToLeaf ==
    lastOp.op = "get_all_paths" =>
        /\ dag.root_uuid \in DOMAIN dag.nodes => dag.nodes[dag.root_uuid] = None
        /\ Len(lastOp.paths) = Len(dag.leaf_uuids)
        /\ \A i \in 1..Len(dag.leaf_uuids) :
              LET path == lastOp.paths[i]
              IN  /\ path.outcome = "path"
                  /\ path.messages[1] = dag.root_uuid
                  /\ path.messages[Len(path.messages)] = dag.leaf_uuids[i]
                  /\ Occurrences(dag.root_uuid, path.messages) = 1


(***************************************************************************)
(* Properties of the cache under SpecRepair                                *)
(***************************************************************************)
Cleaned == lastOp.op = "cleanup_stale_entries"

\* C16: cleanup_stale_entries(valid_paths) removes exactly the entries whose
\* path is not in valid_paths and leaves every entry whose path is in
\* valid_paths as it was; afterwards every cached path is in valid_paths.
C16_CleanupRemovesExactlyStale ==
    Cleaned =>
        /\ DOMAIN cache = DOMAIN lastOp.before \cap lastOp.valid_paths
        /\ \A p \in DOMAIN cache : cache[p] = lastOp.before[p]
        /\ DOMAIN cache \subseteq lastOp.valid_paths

\* C16 witness: a cleanup that removed one entry and kept another
C16_Witness ==
    /\ Cleaned
    /\ DOMAIN lastOp.before \ lastOp.valid_paths # {}
    /\ DOMAIN cache # {}

Queried == lastOp.op = "get_cached_result"

\* the entry of the queried path passed the mtime/size/version check but its
\* result does not rebuild into a ConversationFile
UnrebuildableFresh ==
    /\ Queried
    /\ lastOp.path \in DOMAIN lastOp.before
    /\ ~ShouldReanalyze(lastOp.before, version, fs, lastOp.path)
    /\ ~Rebuilds(lastOp.before[lastOp.path].analysis_result)

\* C17: when the entry passes the mtime/size/version check but its stored
\* result cannot be rebuilt, get_cached_result returns None and removes that
\* entry, leaving every other entry as it was; a later call for the same
\* path finds no entry, returns None and changes nothing.
C17_UnrebuildableEntryDropped ==
    UnrebuildableFresh =>
        /\ lastOp.ret = Miss
        /\ DOMAIN cache = DOMAIN lastOp.before \ {lastOp.path}
        /\ \A p \in DOMAIN cache : cache[p] = lastOp.before[p]
        /\ CachedResult(cache, version, fs, lastOp.path) = Miss
        /\ CacheAfterGet(cache, version, fs, lastOp.path) = cache

\* C17 witness: such an entry was dropped while the entry of the other log
\* stayed
C17_Witness ==
    UnrebuildableFresh /\ DOMAIN cache # {}


(***************************************************************************)
(* Specification SpecType: determine_continuation_type applied to every    *)
(* SummaryPattern over the scores around its thresholds.                   *)
(***************************************************************************)
MaxSummaries == 3

\* confidence scores in ten-thousandths, on both sides of 0.5, 0.8 and 0.85
TypeScores == {0, 4999, 5000, 7999, 8000, 8499, 8500, 9500, 10000}

SummaryPatterns ==
    {[summary_count |-> n,
      is_single_continuation_summary |-> single,
      has_session_transitions |-> transitions,
      confidence_score |-> score,
      summary_type |-> IF n = 0 THEN "none"
                       ELSE IF n = 1 /\ single THEN "single_summary"
                       ELSE "multi_summary",
      session_ids_found |-> {}] :
        n \in 0..MaxSummaries, single \in BOOLEAN, transitions \in BOOLEAN,
        score \in TypeScores}

InitType ==
    /\ pattern \in SummaryPatterns
    /\ lastOp = [op |-> "idle"]
    /\ fs = EmptyMap /\ version = None /\ cache = EmptyMap /\ disk = EmptyMap
    /\ warm = {} /\ stored = EmptyMap /\ saved = {}
    /\ ResolverIdle /\ AnalysisIdle /\ DagIdle

CallDetermineContinuationType ==
    /\ lastOp.op = "idle"
    /\ lastOp' = [op |-> "determine_continuation_type",
                  ret |-> DetermineContinuationType(pattern)]
    /\ UNCHANGED <<fs, version, cache, disk, warm, stored, saved, afile, conv, pc,
                   rfiles, convs, chains, kept, groups, rpc, fillers, dag, pattern>>

NextType == CallDetermineContinuationType

SpecType == InitType /\ [][NextType]_vars

Typed == lastOp.op = "determine_continuation_type"

\* the rules in the order of the specification: at 0.8 the single-summary
\* rule comes before the session-transition rule
SingleSummaryFirst(p) ==
    IF p.confidence_score < 5000 THEN None
    ELSE IF p.confidence_score >= 8500
    THEN (IF p.has_session_transitions THEN "post_compaction"
          ELSE "true_continuation")
    ELSE IF p.confidence_score >= 8000 /\ p.is_single_continuation_summary
    THEN "true_continuation"
    ELSE IF p.confidence_score >= 8000 /\ p.has_session_transitions
    THEN "post_compaction"
    ELSE IF p.summary_count > 2 THEN "context_history"
    ELSE "possible_continuation"

\* the same rules with the session-transition rule first at 0.8
TransitionFirst(p) ==
    IF p.confidence_score < 5000 THEN None
    ELSE IF p.confidence_score >= 8500
    THEN (IF p.has_session_transitions THEN "post_compaction"
          ELSE "true_continuation")
    ELSE IF p.confidence_score >= 8000 /\ p.has_session_transitions
    THEN "post_compaction"
    ELSE IF p.confidence_score >= 8000 /\ p.is_single_continuation_summary
    THEN "true_continuation"
    ELSE IF p.summary_count > 2 THEN "context_history"
    ELSE "possible_continuation"

\* C18: for every combination of confidence, single-summary flag,
\* session-transition flag and summary count, determine_continuation_type
\* returns what the ordered rules give: below 0.5 null; from 0.85
\* post_compaction with a session transition, else true_continuation; from
\* 0.8 true_continuation with a single summary, else post_compaction with a
\* session transition; otherwise context_history for more than 2 summaries;
\* otherwise possible_continuation.
C18_TypeBySingleSummaryFirst ==
    Typed => lastOp.ret = SingleSummaryFirst(pattern)

\* C18 as amended: the same, with the two rules at 0.8 in the other order:
\* from 0.8 post_compaction with a session transition, else
\* true_continuation with a single summary.
C18_TypeByTransitionFirst ==
    Typed => lastOp.ret = TransitionFirst(pattern)

\* C18 witness: a pattern between 0.8 and 0.85 with both flags, typed
\* post_compaction
C18_Witness ==
    /\ Typed
    /\ pattern.confidence_score >= 8000 /\ pattern.confidence_score < 8500
    /\ pattern.is_single_continuation_summary /\ pattern.has_session_transitions
    /\ lastOp.ret = "post_compaction"


(***************************************************************************)
(* The snapshot groups as connected components (SpecResolve).              *)
(***************************************************************************)
RECURSIVE Component(_)
\* the grouped files linked to a file of S by a chain of overlaps over 80%
Component(S) ==
    LET T == S \cup {d \in Sampled : \E c \in S : SharesOverEighty(c, d)}
    IN  IF T = S THEN S ELSE Component(T)

\* C19: the snapshot groups of detect_and_filter_snapshots are exactly the
\* connected components of more than one file of the graph that links two
\* non-exempt files sharing strictly more than 80% of the smaller sample,
\* whatever the order in which the files are listed.
C19_GroupsAreComponents ==
    Filtered =>
        {Range(groups[i]) : i \in {k \in 1..Len(groups) : Len(groups[k]) > 1}}
          = {{d.path : d \in Component({c})} :
                c \in {e \in Sampled : Cardinality(Component({e})) > 1}}


(***************************************************************************)
(* Leaf edges, completion markers and the file itself (SpecResolve).       *)
(***************************************************************************)
\* the session the leafUuid of b resolves to in the terminal-identifier map
ResolvesTo(b, p) ==
    LET map == UuidToSession(convs, rfiles)
    IN  /\ ConvOf(b).starts_with_summary
        /\ ConvOf(b).leaf_uuid \in DOMAIN map
        /\ map[ConvOf(b).leaf_uuid] = p

\* C20: a leaf-identifier continuation edge is never produced when the leaf
\* resolves to the file itself, and never produced when it resolves to a
\* file identified as a terminal completion marker (a file consisting of a
\* single summary record).
C20_NoEdgeToSelfOrFromMarker ==
    ChainsDone =>
        \A p, b \in Sessions :
            /\ ResolvesTo(b, p)
            /\ (p = b \/ ConvOf(p).is_completion_marker)
            => ~HasEdge(p, b)

\* C20 as amended: a leaf-identifier continuation edge is never produced
\* when the leaf resolves to the file itself, and never produced for a file
\* that is itself a terminal completion marker, whatever its leaf resolves
\* to.
C20_NoEdgeToSelfOrToMarker ==
    ChainsDone =>
        \A p, b \in Sessions :
            /\ ResolvesTo(b, p)
            /\ (p = b \/ ConvOf(b).is_completion_marker)
            => ~HasEdge(p, b)

\* C20 witness: one file whose leaf resolves to itself and a completion
\* marker whose leaf resolves to another file, neither with an edge
C20_Witness ==
    /\ ChainsDone
    /\ \E b \in Sessions : ResolvesTo(b, b) /\ ~HasEdge(b, b)
    /\ \E p, b \in Sessions :
          /\ p # b /\ ResolvesTo(b, p) /\ ConvOf(b).is_completion_marker
          /\ ~HasEdge(p, b)


(***************************************************************************)
(* The terminal-identifier map and the order of the file list              *)
(* (SpecResolve).                                                          *)
(***************************************************************************)
\* the edges of a chains dictionary
EdgesOf(ch) ==
    UNION {{<<p, ch[p][i]>> : i \in 1..Len(ch[p])} : p \in DOMAIN ch}

\* the analysed files listed in another order
Reordered(order) == [i \in 1..Len(order) |-> ConvOf(order[i])]

\* C21: when several files end with the same terminal identifier, the map
\* gives that identifier to the file with the earliest first timestamp among
\* them (a file without timestamp counting as earliest), and the
\* continuation edges are the same for every ordering of the file list.
C21_EarliestWinsInAnyOrder ==
    rpc = "chained" =>
        /\ LET map == UuidToSession(convs, rfiles) IN
           \A x \in DOMAIN map :
              /\ GetLastUuidOptimized(rfiles[map[x]]) = x
              /\ \A c \in Sessions :
                    GetLastUuidOptimized(rfiles[c]) = x =>
                       ConvOf(map[x]).first_timestamp <= ConvOf(c).first_timestamp
        /\ \A order \in GlobOrders(Sessions) :
              EdgesOf(FindContinuationChains(Reordered(order), rfiles)) = ChainEdges

\* the record of the relationship's parent file that is its invocation
InvocationsOf(r) ==
    {l \in Range(rfiles[r.parent_session_id].lines) :
        /\ IsObj(l) /\ l.task
        /\ (IF l.uuid = None THEN NoUuid ELSE l.uuid) = r.invocation_uuid}

\* the record names the id through parentUuid, leafUuid or its content
RefersTo(l, id) ==
    IsObj(l) /\ (l.parentUuid = id \/ l.leafUuid = id \/ l.content = id)

\* C22: every spawn relationship of detect_cross_session_relationships binds
\* an invocation to a different file that starts strictly after the
\* invocation, at most 600 seconds after it, and names the invocation's
\* record in one of its first 5 records.
C22_SpawnedAfterWithinWindow ==
    (Discovered /\ rpc = "returned") =>
        \A k \in 1..Len(lastOp.rels) :
            LET r == lastOp.rels[k]
                child == rfiles[r.child_session_id]
            IN  /\ r.child_session_id # r.parent_session_id
                /\ \E inv \in InvocationsOf(r) :
                      LET gap == TimeOf(child.lines[1].timestamp)
                                    - TimeOf(inv.timestamp)
                      IN  gap > 0 /\ gap <= SpawnWindow
                /\ \E i \in 1..Min(ParentChainLines, Len(child.lines)) :
                      RefersTo(child.lines[i], r.invocation_uuid)

\* at most 1 record, or at most 3 records and no Task invocation
SmallFile(c) ==
    \/ c.message_count <= 1
    \/ /\ c.message_count <= 3
       /\ ExtractTaskInvocations(c, FileOf(c)) = <<>>

\* C23: a file with at most 1 record, or with at most 3 records and no
\* invocation, is in no spawn relationship, neither as the parent nor as
\* the child.
C23_SmallFilesInNoRelationship ==
    (Discovered /\ rpc = "returned") =>
        \A c \in Range(convs) :
            SmallFile(c) =>
                \A k \in 1..Len(lastOp.rels) :
                    /\ lastOp.rels[k].parent_session_id # c.session_id
                    /\ lastOp.rels[k].child_session_id # c.session_id

\* an assistant record of the documented format that dispatches a sub-agent
IsToolUseTask(l) == IsObj(l) /\ l.type = "assistant" /\ l.tool_use = "Task"

\* C24: for every assistant record whose message.content holds a tool_use
\* block naming Task, extract_task_invocations returns an invocation with
\* the record's uuid and position.
C24_ToolUseTaskExtracted ==
    Discovered =>
        \A s \in Sessions :
            \A i \in 1..Len(rfiles[s].lines) :
                IsToolUseTask(rfiles[s].lines[i]) =>
                    \E inv \in Range(ExtractTaskInvocations(
                                        [session_id |-> s], rfiles[s])) :
                        /\ inv.message_uuid = rfiles[s].lines[i].uuid
                        /\ inv.message_count_before = i

\* the node uuids that no node of the graph names as its parent_uuid
Unparented(d) ==
    {u \in DOMAIN d.nodes : ~\E v \in DOMAIN d.nodes : d.nodes[v] = u}

\* C25: after add_message calls with pairwise distinct uuids, in any order,
\* leaf_uuids has no duplicates and holds exactly the node uuids that no
\* node names as its parent_uuid.
C25_LeavesAreUnparentedNodes ==
    lastOp.distinct =>
        /\ \A u \in Range(dag.leaf_uuids) : Occurrences(u, dag.leaf_uuids) = 1
        /\ Range(dag.leaf_uuids) = Unparented(dag)

\* three distinct messages, one of them the parent of the two leaves
C25_Witness ==
    /\ lastOp.distinct
    /\ DOMAIN dag.nodes = DagUuids
    /\ Len(dag.leaf_uuids) = 2
    /\ \E u \in DagUuids : \A i \in 1..2 : dag.nodes[dag.leaf_uuids[i]] = u

RECURSIVE ParentAfter(_, _, _)
\* where n parent links lead from u (None once the links leave the graph)
ParentAfter(d, u, n) ==
    IF n = 0 THEN u
    ELSE IF u \notin DOMAIN d.nodes THEN None
    ELSE ParentAfter(d, d.nodes[u], n - 1)

\* no node reaches itself through parent links
Acyclic(d) ==
    \A u \in DOMAIN d.nodes :
        \A n \in 1..Cardinality(DOMAIN d.nodes) : ParentAfter(d, u, n) # u

\* C26: after any sequence of add_message calls the parent_uuid relation is
\* acyclic, and the parent walk of extract_path ends for every leaf.
C26_AcyclicAndWalkEnds ==
    /\ Acyclic(dag)
    /\ \A i \in 1..Len(dag.leaf_uuids) :
          ExtractPath(dag, dag.leaf_uuids[i]).outcome # "endless"

\* the structural score of the analysed file
StructuralOf(c, f) ==
    CalculateConfidenceScore(AnalyzeSummaryContext(f)[1],
                             AnalyzeSummaryContext(f)[2],
                             DetectSessionTransitions(f)[1],
                             c.starts_with_summary, c.parent_session_id,
                             c.is_sdk_generated)

ManySummaries(f) == AnalyzeSummaryContext(f)[2] > 2

\* C27: the continuation_type of an analysed file is never context_history:
\* with more than 2 summaries the structural score is at most 0.2, so the
\* confidence is below 0.5 (no type) or one of 0.85, 0.90, 0.95
\* (true_continuation or post_compaction).
C27_NeverContextHistory ==
    Analysed =>
        /\ conv.continuation_type # "context_history"
        /\ (~conv.has_error /\ ManySummaries(afile)) =>
              /\ StructuralOf(conv, afile) <= 2000
              /\ \/ /\ conv.continuation_confidence < 5000
                    /\ conv.continuation_type = None
                 \/ /\ conv.continuation_confidence \in {8500, 9000, 9500}
                    /\ conv.continuation_type
                          \in {"true_continuation", "post_compaction"}

\* three summaries and an explicit continuation text
C27_Witness ==
    /\ Analysed /\ ~conv.has_error /\ ManySummaries(afile)
    /\ conv.continuation_type = "true_continuation"

\* the place of the first record that is no leading summary or compaction
\* record
FirstUserMessage(f) ==
    LET ls == f.lines
        marked == IsObj(ls[1]) /\ (ls[1].type = "summary" \/ ls[1].isCompactSummary)
    IN  IF marked THEN 2 ELSE 1

HoldsInstructionPhrase(f) ==
    /\ Len(f.lines) >= FirstUserMessage(f)
    /\ LET u == f.lines[FirstUserMessage(f)]
       IN  IsObj(u) /\ u.type = "user" /\ u.sdk

\* C30 as stated: a file is flagged is_sdk_generated only if it has at most
\* 4 records and its first user message holds the exact instruction phrase;
\* with more than 4 records the score is at most 0.63.
C30_SdkFlagNeedsShortFileAndPhrase ==
    Analysed /\ ~conv.has_error =>
        /\ conv.is_sdk_generated =>
              /\ conv.message_count <= 4
              /\ HoldsInstructionPhrase(afile)
        /\ conv.message_count > 4 =>
              /\ conv.sdk_pattern_score <= 6300
              /\ ~conv.is_sdk_generated

\* C30 amended: a file is flagged is_sdk_generated only if it has at most 4
\* records and its first user message holds the exact instruction phrase;
\* with more than 4 records the score is at most 0.665, so the flag is
\* false.
C30_LongFilesStayUnflagged ==
    Analysed /\ ~conv.has_error =>
        /\ conv.is_sdk_generated =>
              /\ conv.message_count <= 4
              /\ HoldsInstructionPhrase(afile)
        /\ conv.message_count > 4 =>
              /\ conv.sdk_pattern_score <= 6650
              /\ ~conv.is_sdk_generated

\* a flagged exchange of 3 records
C30_Witness ==
    /\ Analysed /\ ~conv.has_error /\ conv.is_sdk_generated
    /\ conv.message_count = 3

\* a file of more than 4 records at the ceiling of 0.665
C30_LongWitness ==
    /\ Analysed /\ ~conv.has_error /\ conv.message_count > 4
    /\ conv.sdk_pattern_score = 6650

\* C28: after discover_project_conversations, C is among the children of P
\* if and only if P is among the parents of C.
C28_SpawnBookkeepingBothWays ==
    (Discovered /\ rpc = "returned") =>
        \A P \in Range(convs), C \in Range(convs) :
            C.session_id \in Range(P.child_session_ids)
                <=> P.session_id \in Range(C.parent_session_ids)

\* every file of the list is in the returned list exactly once or marked
\* is_snapshot, and never both
SplitInTwo ==
    \A c \in Range(convs) :
        /\ (c.path \in Range(kept)) # c.is_snapshot
        /\ c.path \in Range(kept) => Occurrences(c.path, kept) = 1

\* C29: from files with is_snapshot = false, detect_and_filter_snapshots
\* leaves every file either in the returned list or marked is_snapshot,
\* never both and never neither, and a second call on the same list returns
\* the same files and changes no flag.
C29_SplitAndIdempotent ==
    /\ [](rpc \in {"filtered", "refiltered"} => SplitInTwo)
    /\ [][rpc' = "refiltered" => (kept' = kept /\ convs' = convs)]_vars

\* a second call on a list with a marked file and a returned file
C29_Witness ==
    /\ rpc = "refiltered"
    /\ \E c \in Range(convs) : c.is_snapshot
    /\ \E c \in Range(convs) : ~c.is_snapshot /\ c.path \in Range(kept)
====
